---------------------------- MODULE Spec2Model ----------------------------
(***************************************************************************)
(* A model of fmriprep's transform loading (fmriprep/utils/transforms.py)  *)
(* and of the volumetric resampling workflow built in                      *)
(* fmriprep/workflows/bold/apply.py.                                       *)
(*                                                                         *)
(* Spec    : one call of load_transforms(xfm_paths, inverse), including    *)
(*           load_ants_h5 and parse_combined_hdf5 for composite files.     *)
(* SpecWf  : init_bold_volumetric_resample_wf builds its graph, then the   *)
(*           graph is run node by node in any topological order.           *)
(* SpecRs  : the volumes of a series are resampled by one job each, run   *)
(*           through worker() of fmriprep/utils/asynctools.py; FairSpecRs  *)
(*           adds that a started job keeps running.                        *)
(* SpecEs  : get_estimator is called for the runs of a dataset.            *)
(* SpecTp  : one call of prepare_timing_parameters                         *)
(*           (fmriprep/workflows/bold/outputs.py).                         *)
(* SpecDk  : main() of wrapper/fmriprep_docker.py builds the docker        *)
(*           command line.                                                 *)
(* SpecFt  : init_bold_fit_wf (fmriprep/workflows/bold/fit.py) builds its  *)
(*           graph stage by stage, then init_bold_wf sets up resampling.   *)
(* SpecWk  : worker() with jobs that may raise; FairSpecWk adds that the   *)
(*           event loop and the executor keep going.                       *)
(* SpecRp  : one call of generate_reports (fmriprep/reports/core.py).      *)
(* SpecCa  : one run of ConvertAffine                                      *)
(*           (fmriprep/interfaces/nitransforms.py).                        *)
(***************************************************************************)
EXTENDS Integers, Sequences, FiniteSets, TLC

VARIABLES
    \* ---- load_transforms ----
    xfm_paths,   \* the caller's list of transform paths
    inverse,     \* the caller's list of inverse flags (the list object itself)
    inverse0,    \* history: the flags as they were passed in
    h5file,      \* content of the composite container behind every .h5 path
    pc,          \* position in load_transforms
    k,           \* number of loop iterations of line 22 completed
    chain,       \* the local variable chain
    opened,      \* paths opened so far, in order (effect log)
    raised,      \* the exception that left load_transforms, "" if none
    result,      \* the returned object, None before the return
    \* ---- init_bold_volumetric_resample_wf and its execution ----
    fieldmap_id, \* the fieldmap_id argument
    metadata,    \* the metadata argument
    wpc,         \* position in the builder / "run" once the graph is returned
    nodes,       \* node name -> interface, for the nodes constructed so far
    edges,       \* connections <<src node, src field, dst node, dst field>>
    ext,         \* values the caller feeds to inputnode at run time
    status,      \* node name -> "pending" | "done" | "failed"
    outs,        \* node name -> its outputs (field -> value) once done
    \* ---- per-volume resampling jobs run through worker() ----
    series,      \* the source series: volume index -> voxel -> intensity
    vol_xfms,    \* volume index -> the transform chain of that volume
    max_concurrent, \* initial value of the semaphore
    sem,         \* current value of the semaphore
    task,        \* volume index -> state of the volume's worker() coroutine
    job,         \* volume index -> state of the volume's job in the executor
    nplanes,     \* volume index -> planes of the output slice written so far
    out_array,   \* the output series: volume index -> voxel -> intensity
    abandoned,   \* the resampling of the series has been abandoned
    \* ---- get_estimator ----
    layout,      \* the dataset: B0FieldSource of each run, IntendedFor
    est_done,    \* the runs get_estimator has been called for
    est_out,     \* run -> what get_estimator returned for it
    \* ---- prepare_timing_parameters ----
    tp_metadata, \* the metadata argument
    tp_ignore,   \* config.workflow.ignore
    slice_time_ref, \* config.workflow.slice_time_ref, in thousandths
    tpc,         \* position in prepare_timing_parameters
    slice_timing, \* the local variable slice_timing
    run_stc,     \* the local variable run_stc
    timing_parameters, \* the dictionary under construction / returned
    \* ---- the docker wrapper's main() ----
    opts,        \* the parsed wrapper options
    dpc,         \* position in main
    command,     \* the docker command line, word by word
    unknown_args, \* the arguments passed on to the container
    warned,      \* a DeprecationWarning has been issued
    \* ---- init_bold_fit_wf, called from init_bold_wf ----
    precomputed, \* the precomputed argument without its "transforms" entry
    fit_transforms, \* precomputed.get("transforms", {})
    fit_fieldmap_id, \* the fieldmap_id argument
    bold_series, \* the echo files of the series
    fpc,         \* position in init_bold_fit_wf / init_bold_wf
    fit_edges,   \* connections <<src node, src field, dst node, dst field>>
    fit_inputs,  \* inputs set on nodes: <<node, field, value>>
    fit_multiecho, \* the local variable multiecho of init_bold_fit_wf
    base_multiecho, \* the local variable multiecho of init_bold_wf
    anat_fieldmap_id, \* fieldmap_id passed to the volumetric resampling
    \* ---- generate_reports ----
    subject_list, \* the subject_list argument
    failing,     \* the subjects whose generate_report() raises
    rpc,         \* position in generate_reports
    ri,          \* number of loop iterations completed
    errno,       \* the local variable errno, Unbound before its assignment
    rp_raised,   \* the exception that left generate_reports, "" if none
    rp_result,   \* the returned value, None before the return
    \* ---- ConvertAffine._run_interface ----
    ca_inputs,   \* self.inputs
    cpc,         \* position in _run_interface
    in_fmt,      \* the local variable in_fmt
    loaded,      \* calls of load_affine so far: <<file, fmt>>
    written,     \* files written so far, in order
    ca_raised,   \* the exception that left _run_interface, "" if none
    ca_results   \* self._results

ltvars == <<xfm_paths, inverse, inverse0, h5file, pc, k, chain,
            opened, raised, result>>
wfvars == <<fieldmap_id, metadata, wpc, nodes, edges, ext, status, outs>>
rsvars == <<series, vol_xfms, max_concurrent, sem, task, job, nplanes,
            out_array, abandoned>>
esvars == <<layout, est_done, est_out>>
tpvars == <<tp_metadata, tp_ignore, slice_time_ref, tpc, slice_timing,
            run_stc, timing_parameters>>
dkvars == <<opts, dpc, command, unknown_args, warned>>
ftvars == <<precomputed, fit_transforms, fit_fieldmap_id, bold_series, fpc,
            fit_edges, fit_inputs, fit_multiecho, base_multiecho,
            anat_fieldmap_id>>
rpvars == <<subject_list, failing, rpc, ri, errno, rp_raised, rp_result>>
cavars == <<ca_inputs, cpc, in_fmt, loaded, written, ca_raised, ca_results>>
\* the variables outside load_transforms and the workflow
xtvars == <<rsvars, esvars, tpvars, dkvars, ftvars, rpvars, cavars>>
\* the variables a part leaves alone
notrs == <<ltvars, wfvars, esvars, tpvars, dkvars,
          ftvars, rpvars, cavars>>
notes == <<ltvars, wfvars, rsvars, tpvars, dkvars,
          ftvars, rpvars, cavars>>
nottp == <<ltvars, wfvars, rsvars, esvars, dkvars,
          ftvars, rpvars, cavars>>
notdk == <<ltvars, wfvars, rsvars, esvars, tpvars,
          ftvars, rpvars, cavars>>
notft == <<ltvars, wfvars, rsvars, esvars, tpvars, dkvars, rpvars, cavars>>
notrp == <<ltvars, wfvars, rsvars, esvars, tpvars, dkvars, ftvars, cavars>>
notca == <<ltvars, wfvars, rsvars, esvars, tpvars, dkvars, ftvars, rpvars>>
vars == <<xfm_paths, inverse, inverse0, h5file, pc, k, chain,
          opened, raised, result,
          fieldmap_id, metadata, wpc, nodes, edges, ext, status, outs,
          series, vol_xfms, max_concurrent, sem, task, job, nplanes,
          out_array, abandoned,
          layout, est_done, est_out,
          tp_metadata, tp_ignore, slice_time_ref, tpc, slice_timing,
          run_stc, timing_parameters,
          opts, dpc, command, unknown_args, warned,
          precomputed, fit_transforms, fit_fieldmap_id, bold_series, fpc,
          fit_edges, fit_inputs, fit_multiecho, base_multiecho,
          anat_fieldmap_id,
          subject_list, failing, rpc, ri, errno, rp_raised, rp_result,
          ca_inputs, cpc, in_fmt, loaded, written, ca_raised, ca_results>>

---------------------------------------------------------------------------
(* Bounds of the model.                                                    *)

\* longest list of transform paths passed to load_transforms
MaxPaths == 3
\* longest list of inverse flags passed to load_transforms
MaxInv == 3
\* most fieldmap estimators available to a series at run time
MaxFmaps == 2
\* most volumes in a resampled series
MaxVols == 2
\* largest number of jobs the semaphore admits at a time
MaxConcurrent == 2

---------------------------------------------------------------------------
(* Python values and helpers.                                              *)

None == [type |-> "None"]

\* seq * n for a Python list (n <= 0 gives the empty list)
RECURSIVE ListRepeat(_, _)
ListRepeat(s, n) == IF n <= 0 THEN <<>> ELSE s \o ListRepeat(s, n - 1)

\* seq[::-1]
Reversed(s) == [j \in 1..Len(s) |-> s[Len(s) + 1 - j]]

Min(a, b) == IF a < b THEN a ELSE b

---------------------------------------------------------------------------
(* Transform files.                                                        *)

\* The paths a caller may pass, each with the suffix pathlib gives it.
PathNames == {"hmc.txt", "coreg.mat", "anat2std.h5"}

Suffix(p) ==
    CASE p = "hmc.txt" -> ".txt"
      [] p = "coreg.mat" -> ".mat"
      [] p = "anat2std.h5" -> ".h5"

\* The affine stored in a linear transform file, kept as its translation.
LinearMatrix(p) ==
    CASE p = "hmc.txt" -> <<1, 0, 0>>
      [] p = "coreg.mat" -> <<0, 2, -1>>
      [] OTHER -> <<0, 0, 0>>

(* Transform objects.  A transform object is [type, xfms]: its class and   *)
(* the list of the elementary transforms it applies, in order.  An         *)
(* elementary transform is [kind, src, inverted, data]: an Affine (data is *)
(* its matrix) or a DenseFieldTransform (data is the field and its grid    *)
(* affine), the file it was read from and whether it stands inverted.      *)
(* A TransformChain is the list of its transforms; a single Affine is the  *)
(* one-element list; TransformBase() applies nothing.                      *)


---------------------------------------------------------------------------
(* Composite containers (ANTs .h5) and parse_combined_hdf5.                *)

\* The grid the reader is written for (lines 60-62 and 82).
GridX == 193
GridY == 229
GridZ == 193

DisplacementFieldType == "DisplacementFieldTransform_float_3_3"

\* The fixed-parameter block the reader insists on (lines 58-79): size,
\* origin, spacing, direction cosines.  All entries are whole numbers.
ExpectedFixedParameters ==
    <<GridX, GridY, GridZ, 96, 132, -78, 1, 1, 1, -1, 0, 0, 0, -1, 0, 0, 0, 1>>

\* A container declaring a 4 x 4 x 4 grid with the same origin and axes.
SmallFixedParameters ==
    <<4, 4, 4, 96, 132, -78, 1, 1, 1, -1, 0, 0, 0, -1, 0, 0, 0, 1>>

\* The voxel-to-world matrix of the returned field (lines 84-91), by rows.
WarpAffine ==
    <<<<1, 0, 0, -96>>, <<0, 1, 0, -132>>, <<0, 0, 1, -78>>, <<0, 0, 0, 1>>>>

\* Number of grid points a fixed-parameter block declares, times 3.
DeclaredLength(fixed) == fixed[1] * fixed[2] * fixed[3] * 3

\* The flat parameter buffer of a container: nparams values; the value at
\* flat index idx is a function of the container's seed.
BufVal(seed, idx) == (((idx + 1) * seed) % 7) - 3

\* The affine sub-transform is kept as its translation, in ITK's LPS frame.
Containers ==
    [ttype : {DisplacementFieldType, "BSplineTransform_float_3_3"},
     fixed : {ExpectedFixedParameters, SmallFixedParameters},
     nparams : {DeclaredLength(ExpectedFixedParameters),
                DeclaredLength(SmallFixedParameters),
                DeclaredLength(SmallFixedParameters) - 3},
     seed : {1, 2},
     affine : {<<1, -2, 3>>}]

\* xform[0].to_ras() of line 51: ITK stores LPS; R = -L and A = -P.
ItkToRas(t) == <<-t[1], -t[2], t[3]>>

\* Voxels of the returned field at which the model keeps the vectors.
Probes == {<<0, 0, 0>>, <<1, 0, 0>>, <<0, 1, 0>>, <<0, 0, 1>>,
           <<GridZ - 1, GridY - 1, GridX - 1>>}

\* warp.reshape(shape) of line 82: numpy raises unless the sizes agree.
ReshapeFits(n, shape) == n = shape[1] * shape[2] * shape[3] * shape[4]

\* Element [i, j, l, c] of buf.reshape((X, Y, Z, 3)) (C order).
Reshaped(seed, shape, i, j, l, c) ==
    BufVal(seed, ((i * shape[2] + j) * shape[3] + l) * shape[4] + c)

\* Variant of RasFlip that leaves the stored LPS components as they are.
RasFlipBug == <<1, 1, 1>>
\* The multiplier of line 83.
RasFlip == <<-1, -1, 1>>

\* Lines 81-83: reshape to the hardcoded grid, transpose(2, 1, 0, 3), scale
\* the vector components.
WarpOf(c) ==
    LET shape == <<GridX, GridY, GridZ, 3>>
    IN [shape |-> <<shape[3], shape[2], shape[1], shape[4]>>,
        at |-> [p \in Probes |->
                  [comp \in 1..3 |->
                     Reshaped(c.seed, shape, p[3], p[2], p[1], comp - 1)
                       * RasFlip[comp]]]]

Raise(e) == [ok |-> FALSE, err |-> e]

\* Variant of TypeCheck that accepts every transform type.
TypeCheckBug(c) == TRUE
\* The two assertions of lines 53-80.
TypeCheck(c) == c.ttype = DisplacementFieldType

FixedCheck(c) == c.fixed = ExpectedFixedParameters

\* Variant of parse_combined_hdf5 that converts only when to_ras is set.
parse_combined_hdf5Bug(c, to_ras) ==
    IF ~TypeCheck(c) THEN Raise("AssertionError")
    ELSE IF ~FixedCheck(c) THEN Raise("AssertionError")
    ELSE IF ~ReshapeFits(c.nparams, <<GridX, GridY, GridZ, 3>>)
         THEN Raise("ValueError")
    ELSE [ok |-> TRUE,
          affine |-> IF to_ras THEN ItkToRas(c.affine) ELSE c.affine,
          warp |-> IF to_ras THEN WarpOf(c)
                   ELSE [WarpOf(c) EXCEPT !.at =
                           [p \in Probes |-> [comp \in 1..3 |->
                              WarpOf(c).at[p][comp] * RasFlip[comp]]]],
          warp_affine |-> WarpAffine]

\* parse_combined_hdf5(h5_fn, to_ras): c is the content of h5_fn.
parse_combined_hdf5(c, to_ras) ==
    LET affine == ItkToRas(c.affine)
    IN IF ~TypeCheck(c) THEN Raise("AssertionError")
       ELSE IF ~FixedCheck(c) THEN Raise("AssertionError")
       ELSE IF ~ReshapeFits(c.nparams, <<GridX, GridY, GridZ, 3>>)
            THEN Raise("ValueError")
       ELSE [ok |-> TRUE, affine |-> affine, warp |-> WarpOf(c),
             warp_affine |-> WarpAffine]

\* load_ants_h5(filename): the chain [DenseFieldTransform, Affine].
load_ants_h5(filename, c) ==
    LET r == parse_combined_hdf5(c, TRUE)
    IN IF ~r.ok THEN r
       ELSE [ok |-> TRUE,
             xfm |-> [type |-> "TransformChain",
                      xfms |-> <<[kind |-> "DenseFieldTransform",
                                  src |-> filename, inverted |-> FALSE,
                                  data |-> [field |-> r.warp,
                                            affine |-> r.warp_affine]],
                                 [kind |-> "Affine",
                                  src |-> filename, inverted |-> FALSE,
                                  data |-> r.affine]>>]]

\* nt.linear.load(path): one affine read from the file at path.
linear_load(path) ==
    [ok |-> TRUE,
     xfm |-> [type |-> "Affine",
              xfms |-> <<[kind |-> "Affine", src |-> path,
                          inverted |-> FALSE, data |-> LinearMatrix(path)]>>]]


---------------------------------------------------------------------------
(* load_transforms(xfm_paths, inverse).                                    *)

\* Variant of Invert that inverts each transform but keeps their order.
InvertBug(xfm) ==
    [type |-> xfm.type,
     xfms |-> [j \in 1..Len(xfm.xfms) |->
                 [xfm.xfms[j] EXCEPT !.inverted = ~xfm.xfms[j].inverted]]]
\* ~xfm: the inverse of an affine; of a chain [T_1, ..., T_n] the chain
\* [inv(T_n), ..., inv(T_1)].
Invert(xfm) ==
    [type |-> xfm.type,
     xfms |-> [j \in 1..Len(xfm.xfms) |->
                 [Reversed(xfm.xfms)[j] EXCEPT
                    !.inverted = ~Reversed(xfm.xfms)[j].inverted]]]

\* Lines 30-33: chain = xfm for the first transform; chain += xfm after,
\* which gives the chain of the transforms of both, in order.
Compose(ch, xfm) ==
    IF ch = None
    THEN xfm
    ELSE [type |-> "TransformChain", xfms |-> ch.xfms \o xfm.xfms]

\* Variant of Identity that moves every coordinate by one voxel.
IdentityBug ==
    [type |-> "TransformBase",
     xfms |-> <<[kind |-> "Affine", src |-> "hmc.txt", inverted |-> FALSE,
                 data |-> <<1, 0, 0>>]>>]
\* nt.base.TransformBase(): the identity transform.
Identity == [type |-> "TransformBase", xfms |-> <<>>]

\* The linear part of the affine in a linear transform file.  Every file of
\* the model holds a diagonal matrix of 1 and -1 (an axis flip), which
\* keeps the inverse exact; coreg.mat flips the first axis, so that it does
\* not commute with the translation of hmc.txt.
LinearAxes(p) ==
    CASE p = "coreg.mat" -> <<-1, 1, 1>>
      [] OTHER -> <<1, 1, 1>>

\* Coordinates at which transforms are evaluated.
Points == {<<0, 0, 0>>, <<1, 2, 3>>, <<-2, 0, 5>>}

\* An Affine applied to the coordinate p: x -> A x + t, or its inverse
\* x -> A^-1 (x - t) when the transform stands inverted (A^-1 = A for a
\* matrix of axis flips).
ApplyAffine(x, p) ==
    IF x.inverted
    THEN [i \in 1..3 |-> LinearAxes(x.src)[i] * (p[i] - x.data[i])]
    ELSE [i \in 1..3 |-> LinearAxes(x.src)[i] * p[i] + x.data[i]]

\* A transform object applied to p: T_n(...T_2(T_1(p))) for the list
\* [T_1, ..., T_n] of its affines; the empty list leaves p where it is.
RECURSIVE MapFrom(_, _, _)
MapFrom(xs, i, p) ==
    IF i > Len(xs) THEN p ELSE MapFrom(xs, i + 1, ApplyAffine(xs[i], p))

ApplyChain(xfm, p) == MapFrom(xfm.xfms, 1, p)

\* Lines 24-27: the loader chosen by the suffix.
LoadOne(path, c) ==
    IF Suffix(path) = ".h5" THEN load_ants_h5(path, c) ELSE linear_load(path)

\* Variant of Broadcast that leaves the single flag as it is.
BroadcastBug(inv, n) == inv
\* Lines 16-17: a single flag is repeated in place, once per path.
Broadcast(inv, n) == ListRepeat(inv, n)

\* Variant of Mismatch that refuses nothing.
MismatchBug(inv, paths) == FALSE
\* Line 18: the lengths that are refused.
Mismatch(inv, paths) == Len(inv) # Len(paths)

\* Variant of Returned without the fallback of lines 34-35.
ReturnedBug(ch) == ch
\* Lines 34-36: an empty chain is returned as the identity transform.
Returned(ch) == IF ch = None THEN Identity ELSE ch

\* Variant of ZipPairs that reverses the paths but not the flags.
ZipPairsBug(paths, inv) ==
    [j \in 1..Min(Len(paths), Len(inv)) |-> <<Reversed(paths)[j], inv[j]>>]
\* zip(xfm_paths[::-1], inverse[::-1]) of line 22.
ZipPairs(paths, inv) ==
    [j \in 1..Min(Len(paths), Len(inv)) |->
        <<Reversed(paths)[j], Reversed(inv)[j]>>]

LtInit ==
    /\ xfm_paths \in UNION {[1..n -> PathNames] : n \in 0..MaxPaths}
    /\ inverse \in UNION {[1..n -> BOOLEAN] : n \in 0..MaxInv}
    /\ inverse0 = inverse
    /\ h5file \in Containers
    /\ pc = "validate"
    /\ k = 0
    /\ chain = None
    /\ opened = <<>>
    /\ raised = ""
    /\ result = None

\* Lines 16-21.
Validate ==
    /\ UNCHANGED <<wfvars, xtvars>>
    /\ pc = "validate"
    /\ IF Len(inverse) = 1
       THEN /\ inverse' = Broadcast(inverse, Len(xfm_paths))
            /\ pc' = "loop"
            /\ raised' = raised
       ELSE IF Mismatch(inverse, xfm_paths)
       THEN /\ raised' = "ValueError"
            /\ pc' = "raised"
            /\ inverse' = inverse
       ELSE /\ pc' = "loop"
            /\ UNCHANGED <<inverse, raised>>
    /\ UNCHANGED <<xfm_paths, inverse0, h5file, k, chain, opened, result>>

\* One iteration of the loop of lines 22-33.
LoadNext ==
    /\ UNCHANGED <<wfvars, xtvars>>
    /\ pc = "loop"
    /\ k < Len(ZipPairs(xfm_paths, inverse))
    /\ LET pair == ZipPairs(xfm_paths, inverse)[k + 1]
           path == pair[1]
           inv == pair[2]
           r == LoadOne(path, h5file)
       IN /\ opened' = Append(opened, path)
          /\ IF r.ok
             THEN /\ chain' = Compose(chain, IF inv THEN Invert(r.xfm) ELSE r.xfm)
                  /\ k' = k + 1
                  /\ UNCHANGED <<pc, raised>>
             ELSE /\ raised' = r.err
                  /\ pc' = "raised"
                  /\ UNCHANGED <<chain, k>>
    /\ UNCHANGED <<xfm_paths, inverse, inverse0, h5file, result>>

\* Lines 34-36.
Return ==
    /\ UNCHANGED <<wfvars, xtvars>>
    /\ pc = "loop"
    /\ k = Len(ZipPairs(xfm_paths, inverse))
    /\ result' = Returned(chain)
    /\ pc' = "done"
    /\ UNCHANGED <<xfm_paths, inverse, inverse0, h5file, k, chain, opened,
                   raised>>



---------------------------------------------------------------------------
(* init_bold_volumetric_resample_wf: the graph it builds.                  *)
(* Every value travelling along a connection is a list; an undefined       *)
(* input is the empty list, a single file the one-element list.            *)

NoneId == "<None>"
FmapIds == {"fmapA", "fmapB", "fmapC"}

\* Variant of Truthy that tests "is not None".
TruthyBug(id) == id # NoneId
\* Python truth of the fieldmap_id argument (line 79).
Truthy(id) == id # NoneId /\ id # ""

\* Lines 37-62: the nodes every workflow has, with their interfaces.
BaseNodes ==
    [n \in {"inputnode", "outputnode", "boldref2target", "bold2target",
            "resample"} |->
        CASE n \in {"inputnode", "outputnode"} -> "IdentityInterface"
          [] n \in {"boldref2target", "bold2target"} -> "Merge"
          [] n = "resample" -> "ResampleSeries"]

\* Variant of BaseEdges with the two inputs of bold2target exchanged.
BaseEdgesSwapped ==
    {<<"inputnode", "boldref2anat_xfm", "boldref2target", "in1">>,
     <<"inputnode", "anat2std_xfm", "boldref2target", "in2">>,
     <<"inputnode", "motion_xfm", "bold2target", "in2">>,
     <<"inputnode", "bold_file", "resample", "in_file">>,
     <<"inputnode", "ref_file", "resample", "ref_file">>,
     <<"boldref2target", "out", "bold2target", "in1">>,
     <<"bold2target", "out", "resample", "transforms">>,
     <<"resample", "out_file", "outputnode", "bold_file">>}
\* Lines 64-77.
BaseEdges ==
    {<<"inputnode", "boldref2anat_xfm", "boldref2target", "in1">>,
     <<"inputnode", "anat2std_xfm", "boldref2target", "in2">>,
     <<"inputnode", "motion_xfm", "bold2target", "in1">>,
     <<"inputnode", "bold_file", "resample", "in_file">>,
     <<"inputnode", "ref_file", "resample", "ref_file">>,
     <<"boldref2target", "out", "bold2target", "in2">>,
     <<"bold2target", "out", "resample", "transforms">>,
     <<"resample", "out_file", "outputnode", "bold_file">>}

\* Lines 80-93: the nodes of the fieldmap branch.
FmapNodes ==
    [n \in {"fmap_select", "distortion_params", "fmap2target", "inverses",
            "fmap_recon"} |->
        CASE n = "fmap_select" -> "KeySelect"
          [] n = "distortion_params" -> "DistortionParameters"
          [] n = "fmap2target" -> "Merge"
          [] n = "inverses" -> "Function"
          [] n = "fmap_recon" -> "ReconstructFieldmap"]

\* Variant of FmapEdges without the connections of lines 112-116.
FmapEdgesNoInject ==
    {<<"inputnode", "fmap_ref", "fmap_select", "fmap_ref">>,
     <<"inputnode", "fmap_coeff", "fmap_select", "fmap_coeff">>,
     <<"inputnode", "fmap_id", "fmap_select", "keys">>,
     <<"inputnode", "bold_file", "distortion_params", "in_file">>,
     <<"inputnode", "boldref2fmap_xfm", "fmap2target", "in1">>,
     <<"boldref2target", "out", "fmap2target", "in2">>,
     <<"boldref2target", "out", "inverses", "inlist">>,
     <<"fmap_select", "fmap_coeff", "fmap_recon", "in_coeffs">>,
     <<"fmap_select", "fmap_ref", "fmap_recon", "fmap_ref_file">>,
     <<"fmap2target", "out", "fmap_recon", "transforms">>,
     <<"inverses", "out", "fmap_recon", "inverse">>}
\* Lines 95-117.
FmapEdges ==
    {<<"inputnode", "fmap_ref", "fmap_select", "fmap_ref">>,
     <<"inputnode", "fmap_coeff", "fmap_select", "fmap_coeff">>,
     <<"inputnode", "fmap_id", "fmap_select", "keys">>,
     <<"inputnode", "bold_file", "distortion_params", "in_file">>,
     <<"inputnode", "boldref2fmap_xfm", "fmap2target", "in1">>,
     <<"boldref2target", "out", "fmap2target", "in2">>,
     <<"boldref2target", "out", "inverses", "inlist">>,
     <<"fmap_select", "fmap_coeff", "fmap_recon", "in_coeffs">>,
     <<"fmap_select", "fmap_ref", "fmap_recon", "fmap_ref_file">>,
     <<"fmap2target", "out", "fmap_recon", "transforms">>,
     <<"inverses", "out", "fmap_recon", "inverse">>,
     <<"distortion_params", "readout_time", "resample", "ro_time">>,
     <<"distortion_params", "pe_direction", "resample", "pe_dir">>,
     <<"fmap_recon", "out_file", "resample", "fieldmap">>}

AllNodes == DOMAIN BaseNodes \cup DOMAIN FmapNodes

\* f extended by g (disjoint domains)
Merged(f, g) ==
    [n \in DOMAIN f \cup DOMAIN g |-> IF n \in DOMAIN f THEN f[n] ELSE g[n]]

\* Variant of _gen_inverses with one flag per transform of inlist.
_gen_inversesBug(inlist) ==
    IF inlist = <<>> THEN <<TRUE>>
    ELSE <<TRUE>> \o ListRepeat(<<FALSE>>, Len(inlist) - 1)
\* _gen_inverses(inlist), lines 148-158: listify leaves a list as it is.
_gen_inverses(inlist) ==
    IF inlist = <<>> THEN <<TRUE>>
    ELSE <<TRUE>> \o ListRepeat(<<FALSE>>, Len(inlist))


---------------------------------------------------------------------------
(* Running the graph.  A node runs once every node it takes input from is  *)
(* done; a node whose run raises is failed and nothing downstream runs.    *)

\* Lists of distinct fieldmap identifiers, at most MaxFmaps long.
KeyLists ==
    {ks \in UNION {[1..n -> FmapIds] : n \in 0..MaxFmaps} :
        \A a, b \in 1..Len(ks) : a # b => ks[a] # ks[b]}

\* The reference image and the spline coefficients estimated for a fieldmap.
RefOf(id) == <<"ref", id>>
CoeffOf(id) == <<"coeff", id>>

Metadatas ==
    [PhaseEncodingDirection : {"j", "i-"}, TotalReadoutTime : {20, 50}]

\* What the enclosing workflow feeds to inputnode.
ExtInputs ==
    {[bold_file |-> <<"bold.nii">>,
      ref_file |-> <<"ref.nii">>,
      motion_xfm |-> <<"hmc.txt">>,
      boldref2fmap_xfm |-> <<"boldref2fmap.txt">>,
      fmap_ref |-> [j \in 1..Len(ks) |-> RefOf(ks[j])],
      fmap_coeff |-> [j \in 1..Len(ks) |-> CoeffOf(ks[j])],
      fmap_id |-> ks,
      boldref2anat_xfm |-> b2a,
      anat2std_xfm |-> a2s] :
        ks \in KeyLists, b2a \in {<<>>, <<"boldref2anat.txt">>},
        a2s \in {<<>>, <<"anat2std.h5">>}}

\* The connection that feeds input f of node n, if any.
Feeding(n, f) == {e \in edges : e[3] = n /\ e[4] = f}

\* The value of input f of node n: undefined (empty) when not connected.
InputOf(n, f) ==
    IF Feeding(n, f) = {} THEN <<>>
    ELSE LET e == CHOOSE e \in Feeding(n, f) : TRUE IN outs[e[1]][e[2]]

Preds(n) == {e[1] : e \in {e \in edges : e[3] = n}}

\* Position of key in keys (keys.index(key)); 0 when absent.
IndexOf(keys, key) ==
    IF \E j \in 1..Len(keys) : keys[j] = key
    THEN CHOOSE j \in 1..Len(keys) :
           keys[j] = key /\ \A h \in 1..(j - 1) : keys[h] # key
    ELSE 0

\* KeySelect(fields=[fmap_ref, fmap_coeff], key=fieldmap_id) of line 81:
\* the entries at the position of key in keys; an error if key is absent.
KeySelect(key, keys, refs, coeffs) ==
    LET j == IndexOf(keys, key)
    IN IF j = 0 \/ Len(refs) # Len(keys) \/ Len(coeffs) # Len(keys)
       THEN Raise("ValueError")
       ELSE [ok |-> TRUE,
             out |-> [fmap_ref |-> <<refs[j]>>, fmap_coeff |-> <<coeffs[j]>>,
                      key |-> <<key>>, keys |-> keys]]

\* niu.Merge(2): in1 then in2, lists flattened, undefined inputs skipped.
Merge2(in1, in2) == [ok |-> TRUE, out |-> [out |-> in1 \o in2]]

\* DistortionParameters(metadata=metadata) of line 86.
DistortionParameters(md) ==
    [ok |-> TRUE,
     out |-> [readout_time |-> <<md.TotalReadoutTime>>,
              pe_direction |-> <<md.PhaseEncodingDirection>>]]

\* ReconstructFieldmap: the fieldmap of the selected coefficients, brought
\* to the target through transforms, each inverted where its flag says so.
ReconstructFieldmap(coeffs, ref, transforms, inv) ==
    IF coeffs = <<>> \/ ref = <<>> THEN Raise("ValueError")
    ELSE IF Len(inv) # 1 /\ Mismatch(inv, transforms) THEN Raise("ValueError")
    ELSE [ok |-> TRUE,
          out |-> [out_file |-> <<[coeffs |-> coeffs, ref |-> ref,
                                   transforms |-> transforms,
                                   inverse |-> inv]>>]]

\* ResampleSeries: one resampling of in_file onto ref_file through the
\* transforms and, when given, the fieldmap.
ResampleSeries(in_file, ref_file, transforms, fieldmap, ro_time, pe_dir) ==
    IF in_file = <<>> \/ ref_file = <<>> THEN Raise("ValueError")
    ELSE [ok |-> TRUE,
          out |-> [out_file |-> <<[in_file |-> in_file, ref_file |-> ref_file,
                                   transforms |-> transforms,
                                   fieldmap |-> fieldmap,
                                   ro_time |-> ro_time,
                                   pe_dir |-> pe_dir]>>]]

\* The field in Hz that fieldmap reconstruction gives at the grid points
\* the model keeps, by the coefficients it was given.
FieldHz(fmap) ==
    IF fmap.coeffs = <<CoeffOf("fmapA")>> THEN <<0, 10>> ELSE <<0, -5, 3>>

\* The spatial axis a phase-encoding direction names, and its polarity.
PeAxis(pe) ==
    CASE pe \in {"i", "i-"} -> 1
      [] pe \in {"j", "j-"} -> 2
      [] pe \in {"k", "k-"} -> 3

PePolarity(pe) == IF pe \in {"i-", "j-", "k-"} THEN -1 ELSE 1

\* Variant of Displacement that moves along all three axes.
DisplacementBug(hz, ro_time, pe) ==
    [a \in 1..3 |-> PePolarity(pe) * hz * ro_time]
\* The distortion displacement at a grid point: field (Hz) times readout
\* time along the phase-encoding axis, nothing along the other two.  The
\* readout time is in milliseconds, so the unit is 1/1000 voxel.
Displacement(hz, ro_time, pe) ==
    [a \in 1..3 |-> IF a = PeAxis(pe) THEN PePolarity(pe) * hz * ro_time
                    ELSE 0]

\* The displacements a ResampleSeries run applies, one per grid point; none
\* when it was given no fieldmap.
DistortionOf(o) ==
    IF o.fieldmap = <<>> \/ o.ro_time = <<>> \/ o.pe_dir = <<>> THEN <<>>
    ELSE [g \in 1..Len(FieldHz(o.fieldmap[1])) |->
            Displacement(FieldHz(o.fieldmap[1])[g], o.ro_time[1], o.pe_dir[1])]

\* The run of node n on the inputs its connections bring.
RunOf(n) ==
    CASE n = "inputnode" -> [ok |-> TRUE, out |-> ext]
      [] n = "outputnode" ->
           [ok |-> TRUE, out |-> [bold_file |-> InputOf(n, "bold_file")]]
      [] nodes[n] = "Merge" -> Merge2(InputOf(n, "in1"), InputOf(n, "in2"))
      [] nodes[n] = "KeySelect" ->
           KeySelect(fieldmap_id, InputOf(n, "keys"), InputOf(n, "fmap_ref"),
                     InputOf(n, "fmap_coeff"))
      [] nodes[n] = "DistortionParameters" -> DistortionParameters(metadata)
      [] nodes[n] = "Function" ->
           [ok |-> TRUE, out |-> [out |-> _gen_inverses(InputOf(n, "inlist"))]]
      [] nodes[n] = "ReconstructFieldmap" ->
           ReconstructFieldmap(InputOf(n, "in_coeffs"),
                               InputOf(n, "fmap_ref_file"),
                               InputOf(n, "transforms"), InputOf(n, "inverse"))
      [] nodes[n] = "ResampleSeries" ->
           ResampleSeries(InputOf(n, "in_file"), InputOf(n, "ref_file"),
                          InputOf(n, "transforms"), InputOf(n, "fieldmap"),
                          InputOf(n, "ro_time"), InputOf(n, "pe_dir"))

WfInit ==
    /\ fieldmap_id \in {NoneId, ""} \cup FmapIds
    /\ metadata \in Metadatas
    /\ wpc = "build"
    /\ nodes = <<>>
    /\ edges = {}
    /\ ext \in ExtInputs
    /\ status = [n \in AllNodes |-> "pending"]
    /\ outs = [n \in AllNodes |-> <<>>]

\* Lines 35-77.
BuildBase ==
    /\ UNCHANGED <<ltvars, xtvars>>
    /\ wpc = "build"
    /\ nodes' = BaseNodes
    /\ edges' = BaseEdges
    /\ wpc' = "branch"
    /\ UNCHANGED <<fieldmap_id, metadata, ext, status, outs>>

\* Lines 79-117: taken when fieldmap_id is true.
BuildFieldmap ==
    /\ UNCHANGED <<ltvars, xtvars>>
    /\ wpc = "branch"
    /\ Truthy(fieldmap_id)
    /\ nodes' = Merged(nodes, FmapNodes)
    /\ edges' = edges \cup FmapEdges
    /\ wpc' = "run"
    /\ UNCHANGED <<fieldmap_id, metadata, ext, status, outs>>

\* Line 119 when the branch of line 79 is not taken.
ReturnPlain ==
    /\ UNCHANGED <<ltvars, xtvars>>
    /\ wpc = "branch"
    /\ ~Truthy(fieldmap_id)
    /\ wpc' = "run"
    /\ UNCHANGED <<fieldmap_id, metadata, nodes, edges, ext, status, outs>>

\* The engine runs one node that is ready.
RunNode ==
    /\ UNCHANGED <<ltvars, xtvars>>
    /\ wpc = "run"
    /\ \E n \in DOMAIN nodes :
         /\ status[n] = "pending"
         /\ \A m \in Preds(n) : status[m] = "done"
         /\ LET r == RunOf(n)
            IN IF r.ok
               THEN /\ status' = [status EXCEPT ![n] = "done"]
                    /\ outs' = [outs EXCEPT ![n] = r.out]
               ELSE /\ status' = [status EXCEPT ![n] = "failed"]
                    /\ outs' = outs
    /\ UNCHANGED <<fieldmap_id, metadata, wpc, nodes, edges, ext>>


---------------------------------------------------------------------------
(* Resampling a series volume by volume.  Each volume is one job; the jobs *)
(* are run through worker(job, semaphore) of fmriprep/utils/asynctools.py. *)

\* Edge of the cubic grid of the source volumes and of the target.
GridN == 3
\* The background value given to voxels mapped outside the source.
Cval == 0

Vox == (0..(GridN - 1)) \X (0..(GridN - 1)) \X (0..(GridN - 1))

\* The source volume at index t: every voxel has its own nonzero intensity.
SourceVolume(t) ==
    [v \in Vox |-> 1 + v[1] + GridN * v[2] + GridN * GridN * v[3]
                     + GridN * GridN * GridN * (t - 1)]

\* The output array before any job has written to it.
ZeroVolume == [v \in Vox |-> 0]

\* The chains a volume may be resampled through: the identity that
\* load_transforms returns for no paths, a translation by one voxel, its
\* inverse, and an axis flip with a translation.
RsChains ==
    {Returned(None),
     linear_load("hmc.txt").xfm,
     Invert(linear_load("hmc.txt").xfm),
     linear_load("coreg.mat").xfm}

\* Variant of Sample that raises for a coordinate outside the source.
SampleBug(vol, c) ==
    IF c \in Vox THEN [ok |-> TRUE, val |-> vol[c]] ELSE Raise("IndexError")
\* The source intensity at the coordinate c: the voxel's value at a grid
\* point, the background value outside the field of view.
Sample(vol, c) ==
    [ok |-> TRUE, val |-> IF c \in Vox THEN vol[c] ELSE Cval]

\* The target voxels of plane z.
Plane(z) == {v \in Vox : v[3] = z}

\* The resampled value of target voxel v of a volume: the chain gives the
\* source coordinate of v (source and target share the grid).
ResampleAt(vol, xfm, v) == Sample(vol, ApplyChain(xfm, v))

\* A whole volume resampled through xfm.
ResampleVol(vol, xfm) == [v \in Vox |-> ResampleAt(vol, xfm, v).val]

\* Variant of OwnSlice in which every job writes to the first slice.
OwnSliceBug(t) == 1
\* The slice of the output array handed to the job of volume t.
OwnSlice(t) == t

\* Variant of Interrupted in which abandoning also stops a running job.
InterruptedBug(j) == j \in {"queued", "running"}
\* The jobs that abandoning keeps from running: those the executor has not
\* started.  A job that runs in an executor thread is not stopped.
Interrupted(j) == j = "queued"

Vols == DOMAIN series

RsInit ==
    /\ \E n \in 1..MaxVols :
         /\ series = [t \in 1..n |-> SourceVolume(t)]
         /\ vol_xfms \in [1..n -> RsChains]
         /\ task = [t \in 1..n |-> "pending"]
         /\ job = [t \in 1..n |-> "none"]
         /\ nplanes = [t \in 1..n |-> 0]
         /\ out_array = [t \in 1..n |-> ZeroVolume]
    /\ max_concurrent \in 1..MaxConcurrent
    /\ sem = max_concurrent
    /\ abandoned = FALSE

\* Variant of CanAcquire in which the semaphore holds nobody back.
CanAcquireBug(s) == TRUE
\* Line 8: entering "async with semaphore" goes on only while the value of
\* the semaphore is positive; otherwise the coroutine waits.
CanAcquire(s) == s > 0

\* Variant of JobOver in which only a returning job ends the await.
JobOverBug(j) == j = "returned"
\* Line 10: the await ends when the job has returned or has raised.
JobOver(j) == j \in {"returned", "raised"}

\* Lines 8-10: async with semaphore (a permit is taken), then
\* run_in_executor hands the job to the executor.
Acquire ==
    /\ \E t \in Vols :
         /\ task[t] = "pending"
         /\ CanAcquire(sem)
         /\ sem' = sem - 1
         /\ task' = [task EXCEPT ![t] = "holding"]
         /\ job' = [job EXCEPT ![t] = "queued"]
    /\ UNCHANGED <<series, vol_xfms, max_concurrent, nplanes, out_array,
                   abandoned>>
    /\ UNCHANGED notrs

\* An executor thread starts the job.
StartJob ==
    /\ \E t \in Vols :
         /\ job[t] = "queued"
         /\ job' = [job EXCEPT ![t] = "running"]
    /\ UNCHANGED <<series, vol_xfms, max_concurrent, sem, task, nplanes,
                   out_array, abandoned>>
    /\ UNCHANGED notrs

\* A running job resamples the next plane of its volume into its slice of
\* the output array; an error in a sample ends the job.
WritePlane ==
    /\ \E t \in Vols :
         /\ job[t] = "running"
         /\ nplanes[t] < GridN
         /\ LET z == nplanes[t]
                ok == \A v \in Plane(z) :
                        ResampleAt(series[t], vol_xfms[t], v).ok
            IN IF ok
               THEN /\ out_array' =
                         [out_array EXCEPT ![OwnSlice(t)] =
                            [v \in Vox |->
                               IF v \in Plane(z)
                               THEN ResampleAt(series[t], vol_xfms[t], v).val
                               ELSE out_array[OwnSlice(t)][v]]]
                    /\ nplanes' = [nplanes EXCEPT ![t] = z + 1]
                    /\ job' = job
               ELSE /\ job' = [job EXCEPT ![t] = "raised"]
                    /\ UNCHANGED <<out_array, nplanes>>
    /\ UNCHANGED <<series, vol_xfms, max_concurrent, sem, task, abandoned>>
    /\ UNCHANGED notrs

\* The job has written its last plane and returns.
JobReturn ==
    /\ \E t \in Vols :
         /\ job[t] = "running"
         /\ nplanes[t] = GridN
         /\ job' = [job EXCEPT ![t] = "returned"]
    /\ UNCHANGED <<series, vol_xfms, max_concurrent, sem, task, nplanes,
                   out_array, abandoned>>
    /\ UNCHANGED notrs

\* Lines 8-10: the awaited job is over; leaving the async with block gives
\* the permit back and worker returns (or passes on the job's exception).
Release ==
    /\ \E t \in Vols :
         /\ task[t] = "holding"
         /\ JobOver(job[t])
         /\ task' = [task EXCEPT ![t] = "done"]
         /\ sem' = sem + 1
    /\ UNCHANGED <<series, vol_xfms, max_concurrent, job, nplanes,
                   out_array, abandoned>>
    /\ UNCHANGED notrs

\* The resampling of the series is abandoned: every worker coroutine that
\* has not returned is cancelled at its await; one inside the async with
\* block gives its permit back; a job the executor has not started is
\* dropped.
Abandon ==
    /\ ~abandoned
    /\ \E t \in Vols : task[t] # "done"
    /\ abandoned' = TRUE
    /\ task' = [t \in Vols |-> IF task[t] = "done" THEN "done" ELSE "cancelled"]
    /\ sem' = sem + Cardinality({t \in Vols : task[t] = "holding"})
    /\ job' = [t \in Vols |-> IF Interrupted(job[t]) THEN "dropped" ELSE job[t]]
    /\ UNCHANGED <<series, vol_xfms, max_concurrent, nplanes, out_array>>
    /\ UNCHANGED notrs

\* worker() takes any callable: a job that is running may raise instead of
\* returning (line 10 then passes the exception on).
JobRaise ==
    /\ \E t \in Vols :
         /\ job[t] = "running"
         /\ job' = [job EXCEPT ![t] = "raised"]
    /\ UNCHANGED <<series, vol_xfms, max_concurrent, sem, task, nplanes,
                   out_array, abandoned>>
    /\ UNCHANGED notrs

---------------------------------------------------------------------------
(* get_estimator(layout, bold_file), as exercised by the tests of          *)
(* fmriprep/workflows/tests/test_base.py.                                  *)

\* The two BOLD runs of the tests' dataset.
BoldFiles == {"run-1", "run-2"}

\* The identifier given to the first estimator that has no
\* B0FieldIdentifier of its own (here the phasediff map with IntendedFor).
AutoId == "auto_00000"

\* A dataset: b0src is each run's B0FieldSource as a list of identifiers
\* (empty when the run has none), intended the runs that the phasediff
\* map's IntendedFor lists.
Layouts ==
    [b0src : [BoldFiles -> {<<>>, <<"epi">>, <<"epi", "phasediff">>}],
     intended : SUBSET BoldFiles]

\* Variant of get_estimator that looks at IntendedFor first.
get_estimatorBug(lo, f) ==
    IF f \in lo.intended THEN <<AutoId>> ELSE lo.b0src[f]
\* get_estimator(layout, fname): the identifiers of the run's
\* B0FieldSource; without one, those of the estimators intended for it.
get_estimator(lo, f) ==
    IF lo.b0src[f] # <<>> THEN lo.b0src[f]
    ELSE IF f \in lo.intended THEN <<AutoId>> ELSE <<>>

\* The datasets of the four tests, each with the values its assertions
\* expect for the two runs.
TestCases ==
    {[layout |-> [b0src |-> [f \in BoldFiles |-> <<>>], intended |-> {}],
      expect |-> [f \in BoldFiles |-> <<>>]],
     [layout |-> [b0src |-> [f \in BoldFiles |->
                               IF f = "run-1" THEN <<"epi">> ELSE <<>>],
                  intended |-> {"run-2"}],
      expect |-> [f \in BoldFiles |->
                    IF f = "run-1" THEN <<"epi">> ELSE <<"auto_00000">>]],
     [layout |-> [b0src |-> [f \in BoldFiles |-> <<"epi">>],
                  intended |-> {"run-1", "run-2"}],
      expect |-> [f \in BoldFiles |-> <<"epi">>]],
     [layout |-> [b0src |-> [f \in BoldFiles |->
                               IF f = "run-1" THEN <<"epi", "phasediff">>
                               ELSE <<"epi">>],
                  intended |-> {}],
      expect |-> [f \in BoldFiles |->
                    IF f = "run-1" THEN <<"epi", "phasediff">>
                    ELSE <<"epi">>]]}

EsInit ==
    /\ layout \in Layouts
    /\ est_done = {}
    /\ est_out = [f \in BoldFiles |-> <<>>]

GetEstimator ==
    /\ \E f \in BoldFiles \ est_done :
         /\ est_out' = [est_out EXCEPT ![f] = get_estimator(layout, f)]
         /\ est_done' = est_done \cup {f}
    /\ layout' = layout
    /\ UNCHANGED notes

---------------------------------------------------------------------------
(* prepare_timing_parameters(metadata) of fmriprep/workflows/bold/outputs.py. *)
(* Times are whole milliseconds; slice_time_ref is in thousandths.         *)

\* A Python dict is a function from the keys it holds.
DictSet(d, key, v) ==
    [x \in DOMAIN d \cup {key} |-> IF x = key THEN v ELSE d[x]]

\* Variant of DictWithout that leaves the key in the dict.
DictWithoutBug(d, key) == d
\* The dict after d.pop(key, default).
DictWithout(d, key) == [x \in DOMAIN d \ {key} |-> d[x]]

\* d.get(key, default)
DictGet(d, key, default) == IF key \in DOMAIN d THEN d[key] ELSE default

\* The keys copied from the metadata (lines 108-114).
TimingKeys ==
    {"RepetitionTime", "VolumeTiming", "DelayTime", "AcquisitionDuration",
     "SliceTiming"}

\* The metadata dictionaries of the model: any subset of the keys below,
\* each with one of its values.
FullMetadatas ==
    [RepetitionTime : {2000, 600},
     VolumeTiming : {<<0, 1000, 2000, 5000>>},
     DelayTime : {500},
     AcquisitionDuration : {1000},
     SliceTiming : {<<>>, <<0>>, <<0, 200, 400, 600>>, <<400, 0, 200>>,
                    <<0, 1000>>},
     StartTime : {100}]

TpMetadatas ==
    {[key \in P |-> full[key]] :
        full \in FullMetadatas,
        P \in SUBSET (TimingKeys \cup {"StartTime"})}

Abs(x) == IF x < 0 THEN -x ELSE x

\* np.isclose(a, b): |a - b| <= atol + rtol * |b| with rtol = 1e-5 and
\* atol = 1e-8 s, in milliseconds.
IsClose(a, b) == Abs(a - b) * 100000 <= 1 + Abs(b)

\* n / d rounded to the nearest whole number, halves to the even one.
RoundDiv(n, d) ==
    LET q == n \div d
        r == n % d
    IN IF 2 * r < d THEN q
       ELSE IF 2 * r > d THEN q + 1
       ELSE IF q % 2 = 0 THEN q ELSE q + 1

\* Variant of RunStc that does not look at config.workflow.ignore.
RunStcBug(st, ign) == Len(st) > 1
\* Line 121.
RunStc(st, ign) == Len(st) > 1 /\ "slicetiming" \notin ign

\* Lines 106-122: the timing keys of the metadata, SliceTiming taken out,
\* SliceTimingCorrected set.
Collected(md, ign) ==
    LET copied == [key \in DOMAIN md \cap TimingKeys |-> md[key]]
        st == DictGet(copied, "SliceTiming", <<>>)
    IN [slice_timing |-> st,
        run_stc |-> RunStc(st, ign),
        timing_parameters |->
            DictSet(DictWithout(copied, "SliceTiming"),
                    "SliceTimingCorrected", RunStc(st, ign))]

\* Lines 125-134: DelayTime or AcquisitionDuration derived from the slices.
WithAcquisitionTime(tp, st) ==
    LET TA == st[Len(st)] + (st[2] - st[1])
    IN IF "RepetitionTime" \in DOMAIN tp
       THEN IF ~IsClose(tp["RepetitionTime"], TA) /\ TA < tp["RepetitionTime"]
            THEN DictSet(tp, "DelayTime", tp["RepetitionTime"] - TA)
            ELSE tp
       ELSE IF "VolumeTiming" \in DOMAIN tp
            THEN DictSet(tp, "AcquisitionDuration", TA)
            ELSE tp

\* Lines 136-140: StartTime when slice timing correction is run.
WithStartTime(tp, st, stc, frac) ==
    IF stc
    THEN DictSet(tp, "StartTime",
                 st[1] + RoundDiv(frac * (st[Len(st)] - st[1]), 1000))
    ELSE tp

\* Lines 124-140.
Derived(tp, slices, stc, frac) ==
    IF Len(slices) > 1
    THEN LET st == SortSeq(slices, LAMBDA a, b : a < b)
         IN WithStartTime(WithAcquisitionTime(tp, st), st, stc, frac)
    ELSE tp

\* The whole function.
prepare_timing_parameters(md, ign, frac) ==
    LET c == Collected(md, ign)
    IN Derived(c.timing_parameters, c.slice_timing, c.run_stc, frac)

TpInit ==
    /\ tp_metadata \in TpMetadatas
    /\ tp_ignore \in {{}, {"slicetiming"}}
    /\ slice_time_ref \in {0, 500, 1000}
    /\ tpc = "collect"
    /\ slice_timing = <<>>
    /\ run_stc = FALSE
    /\ timing_parameters = <<>>

\* Lines 106-122.
Collect ==
    /\ tpc = "collect"
    /\ LET c == Collected(tp_metadata, tp_ignore)
       IN /\ slice_timing' = c.slice_timing
          /\ run_stc' = c.run_stc
          /\ timing_parameters' = c.timing_parameters
    /\ tpc' = "derive"
    /\ UNCHANGED <<tp_metadata, tp_ignore, slice_time_ref>>
    /\ UNCHANGED nottp

\* Lines 124-140.
Derive ==
    /\ tpc = "derive"
    /\ timing_parameters' =
          Derived(timing_parameters, slice_timing, run_stc, slice_time_ref)
    /\ tpc' = "return"
    /\ UNCHANGED <<tp_metadata, tp_ignore, slice_time_ref, slice_timing,
                   run_stc>>
    /\ UNCHANGED nottp

\* Line 142.
ReturnTiming ==
    /\ tpc = "return"
    /\ tpc' = "done"
    /\ UNCHANGED <<tp_metadata, tp_ignore, slice_time_ref, slice_timing,
                   run_stc, timing_parameters>>
    /\ UNCHANGED nottp

---------------------------------------------------------------------------
(* main() of wrapper/fmriprep_docker.py, from the mounts of line 394 on.   *)
(* A word of a command line is the list of the strings it is joined from.  *)

\* The paths of the model that are absolute.
AbsolutePaths == {"/work", "/cfg", "/plugin.yml", "/abs/ref.nii.gz"}

\* os.path.abspath(p): a relative path is taken from the working directory.
Abspath(p) == IF p \in AbsolutePaths THEN <<p>> ELSE <<"/cwd/", p>>

\* os.path.basename(p)
Basename(p) == IF p = "/abs/ref.nii.gz" THEN "ref.nii.gz" ELSE p

\* An option that is neither None nor empty.
IsSet(x) == x # NoneId /\ x # ""

\* a or b
PyOr(a, b) == IF IsSet(a) THEN a ELSE b

\* The list of line 412, ['native', '2mm' '1mm']: adjacent string
\* literals are one string, so the list has two elements.
GridKeywords == {"native", "2mm1mm"}

\* ':'.join(parts) of words
Joined(a, b) == a \o <<":">> \o b

\* The parsed options (lines 251-264, 271, 289, 304).
WrapperOpts ==
    [work_dir : {NoneId, "/work"},
     config : {NoneId, "/cfg"},
     use_plugin : {NoneId, "/plugin.yml"},
     template_resampling_grid :
         {NoneId, "", "native", "1mm", "2mm", "2mm1mm", "grid.nii.gz"},
     output_grid_reference : {NoneId, "/abs/ref.nii.gz"},
     shell : BOOLEAN]

\* main_args for a run with a BIDS directory and an output directory.
MainArgs == <<<<"/data">>, <<"/out">>, <<"participant">>>>

DkInit ==
    /\ opts \in WrapperOpts
    /\ dpc = "work_dir"
    /\ command = <<<<"docker">>, <<"run">>, <<"--rm">>, <<"-it">>,
                   <<"-v">>, <<"/bids", ":", "/data", ":", "ro">>,
                   <<"-v">>, <<"/derivatives", ":", "/out">>>>
    /\ unknown_args = <<>>
    /\ warned = FALSE

\* Lines 394-396.
MountWorkDir ==
    /\ dpc = "work_dir"
    /\ IF IsSet(opts.work_dir)
       THEN /\ command' = command \o
                 <<<<"-v">>, Joined(<<opts.work_dir>>, <<"/scratch">>)>>
            /\ unknown_args' = unknown_args \o <<<<"-w">>, <<"/scratch">>>>
       ELSE UNCHANGED <<command, unknown_args>>
    /\ dpc' = "config"
    /\ UNCHANGED <<opts, warned>>
    /\ UNCHANGED notdk

\* Lines 398-400.
MountConfig ==
    /\ dpc = "config"
    /\ command' =
          IF IsSet(opts.config)
          THEN command \o
                 <<<<"-v">>, Joined(Joined(<<opts.config>>,
                                           <<"/root/.nipype/nipype.cfg">>),
                                    <<"ro">>)>>
          ELSE command
    /\ dpc' = "use_plugin"
    /\ UNCHANGED <<opts, unknown_args, warned>>
    /\ UNCHANGED notdk

\* Lines 402-405.
MountPlugin ==
    /\ dpc = "use_plugin"
    /\ IF IsSet(opts.use_plugin)
       THEN /\ command' = command \o
                 <<<<"-v">>, Joined(Joined(<<opts.use_plugin>>,
                                           <<"/tmp/plugin.yml">>),
                                    <<"ro">>)>>
            /\ unknown_args' =
                 unknown_args \o <<<<"--use-plugin">>, <<"/tmp/plugin.yml">>>>
       ELSE UNCHANGED <<command, unknown_args>>
    /\ dpc' = "template"
    /\ UNCHANGED <<opts, warned>>
    /\ UNCHANGED notdk

\* Lines 407-416.
MountTemplate ==
    /\ dpc = "template"
    /\ LET template_target ==
               PyOr(opts.template_resampling_grid, opts.output_grid_reference)
       IN IF template_target # NoneId
          THEN /\ warned' = (opts.output_grid_reference # NoneId)
               /\ command' =
                    IF template_target \notin GridKeywords
                    THEN command \o
                           <<<<"-v">>,
                             Joined(Joined(Abspath(template_target),
                                           <<"/imports/",
                                             Basename(template_target)>>),
                                    <<"ro">>)>>
                    ELSE command
               /\ unknown_args' =
                    unknown_args \o <<<<"--template-resampling-grid">>,
                                      <<template_target>>>>
          ELSE UNCHANGED <<command, unknown_args, warned>>
    /\ dpc' = "entrypoint"
    /\ opts' = opts
    /\ UNCHANGED notdk

\* Lines 418-438, for a run that asks for neither help nor the version.
Finish ==
    /\ dpc = "entrypoint"
    /\ command' =
          IF opts.shell
          THEN command \o <<<<"--entrypoint=bash">>, <<"image">>>>
          ELSE command \o <<<<"image">>>> \o MainArgs \o unknown_args
    /\ dpc' = "done"
    /\ UNCHANGED <<opts, unknown_args, warned>>
    /\ UNCHANGED notdk

---------------------------------------------------------------------------
(* init_bold_fit_wf (fmriprep/workflows/bold/fit.py) and the lines of      *)
(* init_bold_wf (fmriprep/workflows/bold/base.py) that call it and then    *)
(* set up the volumetric resampling.  The graph is kept as its set of      *)
(* connections and the set of inputs assigned on nodes; a node belongs to  *)
(* the workflow once it is added or connected.                             *)

\* largest number of echo files in a series
MaxEchoes == 3

EchoFiles ==
    [i \in 1..MaxEchoes |-> "echo-" \o ToString(i) \o "_bold.nii.gz"]

\* the series init_bold_wf is called with
BoldSeries == {SubSeq(EchoFiles, 1, n) : n \in 1..MaxEchoes}

\* the derivatives a previous run may have left behind
PrecomputedFiles ==
    [hmc_boldref   |-> "desc-hmc_boldref.nii.gz",
     coreg_boldref |-> "desc-coreg_boldref.nii.gz"]

TransformFiles ==
    [hmc          |-> "from-orig_to-boldref_xfm.txt",
     boldref2fmap |-> "from-boldref_to-fmap_xfm.txt",
     boldref2anat |-> "from-boldref_to-T1w_xfm.txt"]

Restrict(d, S) == [x \in S |-> d[x]]

\* every combination of derivatives present or absent
Precomputeds ==
    {Restrict(PrecomputedFiles, S) : S \in SUBSET DOMAIN PrecomputedFiles}

Transforms ==
    {Restrict(TransformFiles, S) : S \in SUBSET DOMAIN TransformFiles}

\* the fieldmap_id arguments: none, empty, an estimator name
FitFmapIds == {NoneId, "", "fmapA"}

\* fit.py:131-132
have_hmcref == "hmc_boldref" \in DOMAIN precomputed

have_coregref == "coreg_boldref" \in DOMAIN precomputed

\* fit.py:135-137, transforms.get(...) is None for a missing key
hmc_xforms == DictGet(fit_transforms, "hmc", NoneId)

boldref2fmap_xform == DictGet(fit_transforms, "boldref2fmap", NoneId)

\* Variant of boldref2anat_xform that looks up the fieldmap registration.
boldref2anat_xformBug == DictGet(fit_transforms, "boldref2fmap", NoneId)

boldref2anat_xform == DictGet(fit_transforms, "boldref2anat", NoneId)

\* fit.py:222-241, the connections made whatever is precomputed
FitBaseEdges ==
    {<<"hmcref_buffer", "boldref", "outputnode", "hmc_boldref">>,
     <<"regref_buffer", "boldref", "outputnode", "coreg_boldref">>,
     <<"regref_buffer", "boldmask", "outputnode", "bold_mask">>,
     <<"hmc_buffer", "hmc_xforms", "outputnode", "motion_xfm">>,
     <<"inputnode", "bold_file", "func_fit_reports_wf",
       "inputnode.source_file">>,
     <<"inputnode", "t1w_preproc", "func_fit_reports_wf",
       "inputnode.t1w_preproc">>,
     <<"inputnode", "t1w_mask", "func_fit_reports_wf",
       "inputnode.t1w_mask">>,
     <<"inputnode", "t1w_dseg", "func_fit_reports_wf",
       "inputnode.t1w_dseg">>,
     <<"inputnode", "subjects_dir", "func_fit_reports_wf",
       "inputnode.subjects_dir">>,
     <<"inputnode", "subject_id", "func_fit_reports_wf",
       "inputnode.subject_id">>,
     <<"outputnode", "coreg_boldref", "func_fit_reports_wf",
       "inputnode.coreg_boldref">>,
     <<"outputnode", "boldref2anat_xfm", "func_fit_reports_wf",
       "inputnode.boldref2anat_xfm">>,
     <<"summary", "out_report", "func_fit_reports_wf",
       "inputnode.summary_report">>}

\* fit.py:262-271
HmcRefEdges ==
    {<<"hmc_boldref_wf", "outputnode.bold_file", "hmcref_buffer",
       "bold_file">>,
     <<"hmc_boldref_wf", "outputnode.boldref", "ds_hmc_boldref_wf",
       "inputnode.boldref">>,
     <<"ds_hmc_boldref_wf", "outputnode.boldref", "hmcref_buffer",
       "boldref">>,
     <<"hmc_boldref_wf", "outputnode.algo_dummy_scans", "summary",
       "algo_dummy_scans">>,
     <<"hmc_boldref_wf", "outputnode.validation_report",
       "func_fit_reports_wf", "inputnode.validation_report">>}

\* fit.py:282-285
ValidateEdges ==
    {<<"validate_bold", "out_file", "hmcref_buffer", "bold_file">>,
     <<"validate_bold", "out_report", "func_fit_reports_wf",
       "inputnode.validation_report">>}

\* fit.py:302-309
HmcEdges ==
    {<<"hmcref_buffer", "boldref", "bold_hmc_wf",
       "inputnode.raw_ref_image">>,
     <<"hmcref_buffer", "bold_file", "bold_hmc_wf", "inputnode.bold_file">>,
     <<"bold_hmc_wf", "outputnode.xforms", "ds_hmc_wf", "inputnode.xforms">>,
     <<"ds_hmc_wf", "outputnode.xforms", "hmc_buffer", "hmc_xforms">>}

\* fit.py:331-337
CoregRefEdges ==
    {<<"hmcref_buffer", "boldref", "fmapref_buffer", "boldref_files">>,
     <<"fmapref_buffer", "out", "enhance_boldref_wf", "inputnode.in_file">>,
     <<"fmapref_buffer", "out", "ds_coreg_boldref_wf",
       "inputnode.source_files">>,
     <<"ds_coreg_boldref_wf", "outputnode.boldref", "regref_buffer",
       "boldref">>,
     <<"fmapref_buffer", "out", "func_fit_reports_wf",
       "inputnode.sdc_boldref">>}

\* fit.py:368-380
FmapRegEdges ==
    {<<"enhance_boldref_wf", "outputnode.bias_corrected_file", "fmapreg_wf",
       "inputnode.target_ref">>,
     <<"enhance_boldref_wf", "outputnode.mask_file", "fmapreg_wf",
       "inputnode.target_mask">>,
     <<"fmap_select", "fmap_ref", "fmapreg_wf", "inputnode.fmap_ref">>,
     <<"fmap_select", "fmap_mask", "fmapreg_wf", "inputnode.fmap_mask">>,
     <<"fmapreg_wf", "outputnode.target2fmap_xfm", "itk_mat2txt",
       "in_xfms">>,
     <<"itk_mat2txt", "out_xfm", "ds_fmapreg_wf", "inputnode.xform">>,
     <<"fmapref_buffer", "out", "ds_fmapreg_wf", "inputnode.source_files">>,
     <<"ds_fmapreg_wf", "outputnode.xform", "fmapreg_buffer",
       "boldref2fmap_xfm">>}

\* fit.py:393-426
UnwarpEdges ==
    {<<"inputnode", "fmap", "fmap_select", "fmap">>,
     <<"inputnode", "fmap_ref", "fmap_select", "fmap_ref">>,
     <<"inputnode", "fmap_coeff", "fmap_select", "fmap_coeff">>,
     <<"inputnode", "fmap_mask", "fmap_select", "fmap_mask">>,
     <<"inputnode", "sdc_method", "fmap_select", "sdc_method">>,
     <<"inputnode", "fmap_id", "fmap_select", "keys">>,
     <<"fmap_select", "fmap_coeff", "unwarp_wf", "inputnode.fmap_coeff">>,
     <<"fmapreg_buffer", "boldref2fmap_xfm", "unwarp_wf",
       "inputnode.fmap2data_xfm">>,
     <<"enhance_boldref_wf", "outputnode.bias_corrected_file", "unwarp_wf",
       "inputnode.distorted">>,
     <<"unwarp_wf", "outputnode.corrected", "ds_coreg_boldref_wf",
       "inputnode.boldref">>,
     <<"unwarp_wf", "outputnode.corrected_mask", "regref_buffer",
       "boldmask">>,
     <<"fmap_select", "fmap_ref", "func_fit_reports_wf",
       "inputnode.fmap_ref">>,
     <<"fmap_select", "sdc_method", "summary", "distortion_correction">>,
     <<"fmapreg_buffer", "boldref2fmap_xfm", "func_fit_reports_wf",
       "inputnode.boldref2fmap_xfm">>,
     <<"unwarp_wf", "outputnode.fieldmap", "func_fit_reports_wf",
       "inputnode.fieldmap">>}

\* fit.py:429-438
NoUnwarpEdges ==
    {<<"enhance_boldref_wf", "outputnode.bias_corrected_file",
       "ds_coreg_boldref_wf", "inputnode.boldref">>,
     <<"enhance_boldref_wf", "outputnode.mask_file", "regref_buffer",
       "boldmask">>}

\* fit.py:468-485
BoldRegEdges ==
    {<<"inputnode", "t1w_preproc", "bold_reg_wf", "inputnode.t1w_preproc">>,
     <<"inputnode", "t1w_mask", "bold_reg_wf", "inputnode.t1w_mask">>,
     <<"inputnode", "t1w_dseg", "bold_reg_wf", "inputnode.t1w_dseg">>,
     <<"inputnode", "subjects_dir", "bold_reg_wf",
       "inputnode.subjects_dir">>,
     <<"inputnode", "subject_id", "bold_reg_wf", "inputnode.subject_id">>,
     <<"inputnode", "fsnative2t1w_xfm", "bold_reg_wf",
       "inputnode.fsnative2t1w_xfm">>,
     <<"regref_buffer", "boldref", "bold_reg_wf",
       "inputnode.ref_bold_brain">>,
     <<"regref_buffer", "boldref", "ds_boldreg_wf",
       "inputnode.source_files">>,
     <<"bold_reg_wf", "outputnode.itk_bold_to_t1", "ds_boldreg_wf",
       "inputnode.xform">>,
     <<"ds_boldreg_wf", "outputnode.xform", "outputnode",
       "boldref2anat_xfm">>,
     <<"bold_reg_wf", "outputnode.fallback", "summary", "fallback">>}

\* the nodes of the workflow: inputnode is added explicitly (fit.py:183),
\* every other node by its first connection
FitNodes ==
    IF fpc \in {"idle", "start"} THEN {}
    ELSE {"inputnode"} \cup {e[1] : e \in fit_edges}
                       \cup {e[3] : e \in fit_edges}

\* the state when init_bold_wf is called
FitInit ==
    /\ precomputed \in Precomputeds
    /\ fit_transforms \in Transforms
    /\ fit_fieldmap_id \in FitFmapIds
    /\ bold_series \in BoldSeries
    /\ fpc = "start"
    /\ fit_edges = {}
    /\ fit_inputs = {}
    /\ fit_multiecho = FALSE
    /\ base_multiecho = FALSE
    /\ anat_fieldmap_id = NoneId

\* fit.py:100-241: the locals, the buffers and the fixed connections
FitSetup ==
    /\ fpc = "start"
    /\ fit_multiecho' = (Len(bold_series) > 1)
    /\ fit_edges' = FitBaseEdges
    /\ fit_inputs' = {<<"summary", "dummy_scans", "config.dummy_scans">>}
    /\ fpc' = "stage1"
    /\ UNCHANGED <<precomputed, fit_transforms, fit_fieldmap_id, bold_series,
                   base_multiecho, anat_fieldmap_id>>
    /\ UNCHANGED notft

\* fit.py:243-286, Stage 1: the motion correction reference
FitStage1 ==
    /\ fpc = "stage1"
    /\ IF ~have_hmcref
       THEN /\ fit_edges' = fit_edges \cup HmcRefEdges
            /\ fit_inputs' = fit_inputs \cup
                 {<<"hmc_boldref_wf", "inputnode.dummy_scans",
                    "config.dummy_scans">>,
                  <<"ds_hmc_boldref_wf", "inputnode.source_files",
                    bold_series[1]>>}
       ELSE /\ fit_edges' = fit_edges \cup ValidateEdges
            /\ fit_inputs' = fit_inputs \cup
                 {<<"validate_bold", "in_file", bold_series[1]>>,
                  <<"hmcref_buffer", "boldref", precomputed["hmc_boldref"]>>}
    /\ fpc' = "stage2"
    /\ UNCHANGED <<precomputed, fit_transforms, fit_fieldmap_id, bold_series,
                   fit_multiecho, base_multiecho, anat_fieldmap_id>>
    /\ UNCHANGED notft

\* fit.py:288-312, Stage 2: head motion
FitStage2 ==
    /\ fpc = "stage2"
    /\ IF ~Truthy(hmc_xforms)
       THEN /\ fit_edges' = fit_edges \cup HmcEdges
            /\ fit_inputs' = fit_inputs \cup
                 {<<"ds_hmc_wf", "inputnode.source_files", bold_series[1]>>}
       ELSE /\ fit_edges' = fit_edges
            /\ fit_inputs' = fit_inputs \cup
                 {<<"hmc_buffer", "hmc_xforms", hmc_xforms>>}
    /\ fpc' = "stage3"
    /\ UNCHANGED <<precomputed, fit_transforms, fit_fieldmap_id, bold_series,
                   fit_multiecho, base_multiecho, anat_fieldmap_id>>
    /\ UNCHANGED notft

\* fit.py:314-442, Stage 3: the coregistration reference, unwarped when a
\* fieldmap is given
FitStage3 ==
    /\ fpc = "stage3"
    /\ IF ~have_coregref
       THEN IF Truthy(fit_fieldmap_id)
            THEN IF ~Truthy(boldref2fmap_xform)
                 THEN /\ fit_edges' = fit_edges \cup CoregRefEdges
                            \cup FmapRegEdges \cup UnwarpEdges
                      /\ fit_inputs' = fit_inputs \cup
                           {<<"fmapref_buffer", "sbref_files", "sbref_files">>,
                            <<"unwarp_wf", "inputnode.metadata",
                              "metadata">>}
                 ELSE /\ fit_edges' = fit_edges \cup CoregRefEdges
                            \cup UnwarpEdges
                      /\ fit_inputs' = fit_inputs \cup
                           {<<"fmapref_buffer", "sbref_files", "sbref_files">>,
                            <<"fmapreg_buffer", "boldref2fmap_xfm",
                              boldref2fmap_xform>>,
                            <<"unwarp_wf", "inputnode.metadata",
                              "metadata">>}
            ELSE /\ fit_edges' = fit_edges \cup CoregRefEdges
                       \cup NoUnwarpEdges
                 /\ fit_inputs' = fit_inputs \cup
                      {<<"fmapref_buffer", "sbref_files", "sbref_files">>}
       ELSE /\ fit_edges' = fit_edges
            /\ fit_inputs' = fit_inputs \cup
                 {<<"regref_buffer", "boldref",
                    precomputed["coreg_boldref"]>>}
    /\ fpc' = "stage4"
    /\ UNCHANGED <<precomputed, fit_transforms, fit_fieldmap_id, bold_series,
                   fit_multiecho, base_multiecho, anat_fieldmap_id>>
    /\ UNCHANGED notft

\* fit.py:444-490: registration to the anatomical, and the return
FitStage4 ==
    /\ fpc = "stage4"
    /\ IF ~Truthy(boldref2anat_xform)
       THEN /\ fit_edges' = fit_edges \cup BoldRegEdges
            /\ fit_inputs' = fit_inputs
       ELSE /\ fit_edges' = fit_edges
            /\ fit_inputs' = fit_inputs \cup
                 {<<"outputnode", "boldref2anat_xfm", boldref2anat_xform>>}
    /\ fpc' = "built"
    /\ UNCHANGED <<precomputed, fit_transforms, fit_fieldmap_id, bold_series,
                   fit_multiecho, base_multiecho, anat_fieldmap_id>>
    /\ UNCHANGED notft

\* base.py:255-256: at level "minimal" init_bold_wf returns here
ReturnMinimal ==
    /\ fpc = "built"
    /\ fpc' = "minimal"
    /\ UNCHANGED <<precomputed, fit_transforms, fit_fieldmap_id, bold_series,
                   fit_edges, fit_inputs, fit_multiecho, base_multiecho,
                   anat_fieldmap_id>>
    /\ UNCHANGED notft

\* base.py:258-282: multiecho, and the fieldmap_id handed to
\* init_bold_volumetric_resample_wf
SetupResampling ==
    /\ fpc = "built"
    /\ base_multiecho' = (Len(bold_series) > 2)
    /\ anat_fieldmap_id' =
         IF ~base_multiecho' THEN fit_fieldmap_id ELSE NoneId
    /\ fpc' = "resampling"
    /\ UNCHANGED <<precomputed, fit_transforms, fit_fieldmap_id, bold_series,
                   fit_edges, fit_inputs, fit_multiecho>>
    /\ UNCHANGED notft

---------------------------------------------------------------------------
(* generate_reports (fmriprep/reports/core.py).                            *)

\* longest subject list
MaxSubjects == 3

Subjects == {"01", "02", "03"}

\* the value of a local name that has not been assigned, and of the
\* result before the return
Unbound == -1

\* lists of distinct subjects
SubjectLists ==
    {l \in UNION {[1..n -> Subjects] : n \in 0..MaxSubjects} :
        \A i, j \in DOMAIN l : i # j => l[i] # l[j]}

\* the state when generate_reports is called: report_errors = [] (line 62)
\* and errno not yet assigned
RpInit ==
    /\ subject_list \in SubjectLists
    /\ failing \in SUBSET Subjects
    /\ rpc = "loop"
    /\ ri = 0
    /\ errno = Unbound
    /\ rp_raised = ""
    /\ rp_result = Unbound

\* Lines 63-83, one iteration: the Report is built, errno is set to 0 and
\* raised by one if generate_report() raises.
ReportNext ==
    /\ rpc = "loop"
    /\ ri < Len(subject_list)
    /\ LET subject_label == subject_list[ri + 1]
       IN errno' = IF subject_label \in failing THEN 0 + 1 ELSE 0
    /\ ri' = ri + 1
    /\ UNCHANGED <<subject_list, failing, rpc, rp_raised, rp_result>>
    /\ UNCHANGED notrp

\* Lines 85-97: "if errno" reads the local, which is unassigned when the
\* loop body never ran; otherwise the error is logged and errno returned.
ReportReturn ==
    /\ rpc = "loop"
    /\ ri = Len(subject_list)
    /\ IF errno = Unbound
       THEN /\ rp_raised' = "UnboundLocalError"
            /\ rpc' = "raised"
            /\ rp_result' = rp_result
       ELSE /\ rp_result' = errno
            /\ rpc' = "done"
            /\ rp_raised' = rp_raised
    /\ UNCHANGED <<subject_list, failing, ri, errno>>
    /\ UNCHANGED notrp

---------------------------------------------------------------------------
(* ConvertAffine._run_interface (fmriprep/interfaces/nitransforms.py).     *)
(* A file name is the list of its dot-separated parts, each suffix with    *)
(* its dot; a file has the format its content was written in.              *)

XfmNames ==
    {<<"xfm", ".lta">>, <<"xfm", ".mat">>, <<"xfm", ".txt">>,
     <<"xfm", ".h5">>, <<"xfm", ".LTA">>, <<"xfm", ".txt", ".gz">>,
     <<"lta">>}

Formats == {"itk", "fs", "fsl"}

\* Path(name).suffix: the last suffix, "" without one
PathSuffix(name) == IF Len(name) > 1 THEN name[Len(name)] ELSE ""

\* Lines 60-64: the extension of the output format
ExtOf(fmt) ==
    CASE fmt = "fs" -> ".lta"
      [] fmt = "itk" -> ".txt"
      [] fmt = "fsl" -> ".mat"

\* Variant of InferFormat that takes every unknown suffix for ITK.
InferFormatBug(suffix) ==
    CASE suffix = ".lta" -> [ok |-> TRUE, fmt |-> "fs"]
      [] suffix = ".mat" -> [ok |-> TRUE, fmt |-> "fsl"]
      [] OTHER -> [ok |-> TRUE, fmt |-> "itk"]
\* Lines 68-72: the dictionary lookup by suffix
InferFormat(suffix) ==
    CASE suffix = ".lta" -> [ok |-> TRUE, fmt |-> "fs"]
      [] suffix = ".mat" -> [ok |-> TRUE, fmt |-> "fsl"]
      [] suffix = ".txt" -> [ok |-> TRUE, fmt |-> "itk"]
      [] OTHER -> Raise("KeyError")

\* fname_presuffix(in_xfm, suffix=tag + ext, newpath=cwd, use_ext=False)
Presuffix(fname, tag, extension) ==
    [dir |-> "cwd",
     name |-> (IF Len(fname) > 1 THEN SubSeq(fname, 1, Len(fname) - 1)
               ELSE fname) \o <<tag, extension>>]

\* the inputs of the interface and the file behind in_xfm
CaInit ==
    /\ ca_inputs \in [in_xfm : XfmNames, content : Formats,
                      in_fmt : {"auto"} \cup Formats, out_fmt : Formats,
                      inverse : BOOLEAN]
    /\ cpc = "resolve"
    /\ in_fmt = ""
    /\ loaded = <<>>
    /\ written = <<>>
    /\ ca_raised = ""
    /\ ca_results = <<>>

\* Lines 60-73: ext, and in_fmt looked up by suffix when it is "auto"
ResolveFormat ==
    /\ cpc = "resolve"
    /\ IF ca_inputs.in_fmt = "auto"
       THEN LET r == InferFormat(PathSuffix(ca_inputs.in_xfm))
            IN IF r.ok
               THEN in_fmt' = r.fmt /\ cpc' = "load" /\ ca_raised' = ca_raised
               ELSE in_fmt' = in_fmt /\ cpc' = "raised" /\ ca_raised' = r.err
       ELSE in_fmt' = ca_inputs.in_fmt /\ cpc' = "load"
            /\ ca_raised' = ca_raised
    /\ UNCHANGED <<ca_inputs, loaded, written, ca_results>>
    /\ UNCHANGED notca

\* Lines 74-76: load_affine reads the file as in_fmt; a file written in
\* another format is refused
LoadAffine ==
    /\ cpc = "load"
    /\ loaded' = Append(loaded, <<ca_inputs.in_xfm, in_fmt>>)
    /\ IF ca_inputs.content = in_fmt
       THEN cpc' = "forward" /\ ca_raised' = ca_raised
       ELSE cpc' = "raised" /\ ca_raised' = "TransformFileError"
    /\ UNCHANGED <<ca_inputs, in_fmt, written, ca_results>>
    /\ UNCHANGED notca

\* Lines 78-85: the forward transform is written
WriteForward ==
    /\ cpc = "forward"
    /\ LET out_file == Presuffix(ca_inputs.in_xfm, "_fwd",
                                 ExtOf(ca_inputs.out_fmt))
       IN /\ ca_results' = [out_xfm |-> out_file]
          /\ written' = Append(written, out_file)
    /\ cpc' = "inverse"
    /\ UNCHANGED <<ca_inputs, in_fmt, loaded, ca_raised>>
    /\ UNCHANGED notca

\* Lines 87-101: the inverse is written when asked for; return
WriteInverse ==
    /\ cpc = "inverse"
    /\ IF ca_inputs.inverse
       THEN LET out_inv == Presuffix(ca_inputs.in_xfm, "_inv",
                                     ExtOf(ca_inputs.out_fmt))
            IN /\ ca_results' = [out_xfm |-> ca_results.out_xfm,
                                 out_inv |-> out_inv]
               /\ written' = Append(written, out_inv)
       ELSE UNCHANGED <<ca_results, written>>
    /\ cpc' = "done"
    /\ UNCHANGED <<ca_inputs, in_fmt, loaded, ca_raised>>
    /\ UNCHANGED notca

---------------------------------------------------------------------------
(* Specifications.                                                         *)

\* The workflow variables while load_transforms is studied.
WfIdle ==
    /\ fieldmap_id = NoneId
    /\ metadata = <<>>
    /\ wpc = "idle"
    /\ nodes = <<>>
    /\ edges = {}
    /\ ext = <<>>
    /\ status = <<>>
    /\ outs = <<>>

\* The load_transforms variables while the workflow is studied.
LtIdle ==
    /\ xfm_paths = <<>>
    /\ inverse = <<>>
    /\ inverse0 = <<>>
    /\ h5file = <<>>
    /\ pc = "idle"
    /\ k = 0
    /\ chain = None
    /\ opened = <<>>
    /\ raised = ""
    /\ result = None

\* The resampling variables while another part is studied.
RsIdle ==
    /\ series = <<>>
    /\ vol_xfms = <<>>
    /\ max_concurrent = 0
    /\ sem = 0
    /\ task = <<>>
    /\ job = <<>>
    /\ nplanes = <<>>
    /\ out_array = <<>>
    /\ abandoned = FALSE

\* The get_estimator variables while another part is studied.
EsIdle ==
    /\ layout = <<>>
    /\ est_done = {}
    /\ est_out = <<>>

\* The prepare_timing_parameters variables while another part is studied.
TpIdle ==
    /\ tp_metadata = <<>>
    /\ tp_ignore = {}
    /\ slice_time_ref = 0
    /\ tpc = "idle"
    /\ slice_timing = <<>>
    /\ run_stc = FALSE
    /\ timing_parameters = <<>>

\* The wrapper variables while another part is studied.
DkIdle ==
    /\ opts = <<>>
    /\ dpc = "idle"
    /\ command = <<>>
    /\ unknown_args = <<>>
    /\ warned = FALSE

\* The init_bold_fit_wf variables while another part is studied.
FtIdle ==
    /\ precomputed = <<>>
    /\ fit_transforms = <<>>
    /\ fit_fieldmap_id = NoneId
    /\ bold_series = <<>>
    /\ fpc = "idle"
    /\ fit_edges = {}
    /\ fit_inputs = {}
    /\ fit_multiecho = FALSE
    /\ base_multiecho = FALSE
    /\ anat_fieldmap_id = NoneId

\* The generate_reports variables while another part is studied.
RpIdle ==
    /\ subject_list = <<>>
    /\ failing = {}
    /\ rpc = "idle"
    /\ ri = 0
    /\ errno = -1
    /\ rp_raised = ""
    /\ rp_result = -1

\* The ConvertAffine variables while another part is studied.
CaIdle ==
    /\ ca_inputs = <<>>
    /\ cpc = "idle"
    /\ in_fmt = ""
    /\ loaded = <<>>
    /\ written = <<>>
    /\ ca_raised = ""
    /\ ca_results = <<>>

XtIdle == RsIdle /\ EsIdle /\ TpIdle /\ DkIdle /\ FtIdle /\ RpIdle /\ CaIdle

Init == LtInit /\ WfIdle /\ XtIdle
Next == Validate \/ LoadNext \/ Return
Spec == Init /\ [][Next]_vars

InitWf == WfInit /\ LtIdle /\ XtIdle
NextWf == BuildBase \/ BuildFieldmap \/ ReturnPlain \/ RunNode
SpecWf == InitWf /\ [][NextWf]_vars

InitRs == RsInit /\ LtIdle /\ WfIdle /\ EsIdle /\ TpIdle /\ DkIdle
              /\ FtIdle /\ RpIdle /\ CaIdle
NextRs == Acquire \/ StartJob \/ WritePlane \/ JobReturn \/ Release \/ Abandon
SpecRs == InitRs /\ [][NextRs]_vars
InitEs == EsInit /\ LtIdle /\ WfIdle /\ RsIdle /\ TpIdle /\ DkIdle
              /\ FtIdle /\ RpIdle /\ CaIdle
NextEs == GetEstimator
SpecEs == InitEs /\ [][NextEs]_vars

InitTp == TpInit /\ LtIdle /\ WfIdle /\ RsIdle /\ EsIdle /\ DkIdle
              /\ FtIdle /\ RpIdle /\ CaIdle
NextTp == Collect \/ Derive \/ ReturnTiming
SpecTp == InitTp /\ [][NextTp]_vars

InitDk == DkInit /\ LtIdle /\ WfIdle /\ RsIdle /\ EsIdle /\ TpIdle
              /\ FtIdle /\ RpIdle /\ CaIdle
NextDk == MountWorkDir \/ MountConfig \/ MountPlugin \/ MountTemplate \/ Finish
SpecDk == InitDk /\ [][NextDk]_vars

InitFt == FitInit /\ LtIdle /\ WfIdle /\ RsIdle /\ EsIdle /\ TpIdle /\ DkIdle
              /\ RpIdle /\ CaIdle
NextFt == FitSetup \/ FitStage1 \/ FitStage2 \/ FitStage3 \/ FitStage4
              \/ ReturnMinimal \/ SetupResampling
SpecFt == InitFt /\ [][NextFt]_vars

InitRp == RpInit /\ LtIdle /\ WfIdle /\ RsIdle /\ EsIdle /\ TpIdle /\ DkIdle
              /\ FtIdle /\ CaIdle
NextRp == ReportNext \/ ReportReturn
SpecRp == InitRp /\ [][NextRp]_vars

InitCa == CaInit /\ LtIdle /\ WfIdle /\ RsIdle /\ EsIdle /\ TpIdle /\ DkIdle
              /\ FtIdle /\ RpIdle
NextCa == ResolveFormat \/ LoadAffine \/ WriteForward \/ WriteInverse
SpecCa == InitCa /\ [][NextCa]_vars

\* worker() with jobs that may raise; what a job computes plays no part,
\* so every volume is resampled through the identity.
InitWk == InitRs /\ \A t \in Vols : vol_xfms[t] = Returned(None)
NextWk == Acquire \/ StartJob \/ WritePlane \/ JobReturn \/ JobRaise
              \/ Release \/ Abandon
SpecWk == InitWk /\ [][NextWk]_vars
\* The event loop runs every coroutine that can go on, the executor starts
\* every job handed to it, and a started job keeps running.
FairSpecWk ==
    SpecWk /\ WF_vars(Acquire) /\ WF_vars(StartJob) /\ WF_vars(WritePlane)
           /\ WF_vars(JobReturn) /\ WF_vars(Release)

\* An executor thread that has started a job keeps running it.
FairSpecRs == SpecRs /\ WF_vars(WritePlane) /\ WF_vars(JobReturn)


---------------------------------------------------------------------------
(* Properties of load_transforms (checked under Spec).                     *)

NPaths == Len(xfm_paths)

\* The flag load_transforms was given for the i-th path.
FlagFor(i) == IF Len(inverse0) = 1 THEN inverse0[1] ELSE inverse0[i]

FlagCountRefused == Len(inverse0) # 1 /\ Len(inverse0) # NPaths

IsH5(path) == Suffix(path) = ".h5"

\* The transforms held by the chain under construction.
Held == IF chain = None THEN <<>> ELSE chain.xfms

\* C1: whenever the number of inverse flags is neither 1 nor the number of
\* paths, load_transforms leaves by raising ValueError, and at that point no
\* transform file has been opened and no chain element has been built.
C1_MismatchFailsFast ==
    FlagCountRefused =>
        /\ pc \in {"validate", "raised"}
        /\ pc = "raised" => raised = "ValueError"
        /\ opened = <<>>
        /\ chain = None
        /\ result = None

C1_Witness ==
    /\ pc = "raised"
    /\ raised = "ValueError"
    /\ NPaths = 2
    /\ Len(inverse0) = 3
    /\ opened = <<>>

\* Number of elementary transforms a file contributes: a composite
\* container its displacement field and its affine, a linear file its affine.
Width(path) == IF IsH5(path) THEN 2 ELSE 1

\* Source and direction of every transform of a chain that holds, for the
\* paths i, i-1, ..., 1 in that order, the transforms read from the path,
\* each inverted iff flags[i].
RECURSIVE TagsFrom(_, _)
TagsFrom(i, flags) ==
    IF i = 0 THEN <<>>
    ELSE ListRepeat(<<[src |-> xfm_paths[i], inverted |-> flags[i]]>>,
                    Width(xfm_paths[i]))
           \o TagsFrom(i - 1, flags)

TagsOf(xfms) ==
    [j \in 1..Len(xfms) |-> [src |-> xfms[j].src, inverted |-> xfms[j].inverted]]

\* Reading the file behind a path fails.
Unreadable(path) == IsH5(path) /\ ~parse_combined_hdf5(h5file, TRUE).ok

Finished == pc \in {"done", "raised"}

\* C2: for N paths and a flag b, the call with [b] and the call with [b]*N
\* end alike: both raise the reader's error when a file cannot be read, and
\* otherwise both return the transforms of all N paths, every one carrying
\* b, the identity when N = 0.
C2_SingleFlagBroadcast ==
    \A b \in BOOLEAN :
        (Finished /\ (inverse0 = <<b>> \/ inverse0 = ListRepeat(<<b>>, NPaths)))
            => IF \E i \in 1..NPaths : Unreadable(xfm_paths[i])
               THEN /\ pc = "raised"
                    /\ raised = parse_combined_hdf5(h5file, TRUE).err
                    /\ result = None
               ELSE /\ pc = "done"
                    /\ raised = ""
                    /\ TagsOf(result.xfms) = TagsFrom(NPaths, [i \in 1..NPaths |-> b])
                    /\ NPaths = 0 <=> result.type = "TransformBase"

C2_Witness ==
    /\ pc = "done"
    /\ inverse0 = <<TRUE>>
    /\ NPaths = 3
    /\ Len(result.xfms) >= 3
    /\ \A j \in 1..Len(result.xfms) : result.xfms[j].inverted

C4_EmptyIsIdentity ==
    (NPaths = 0 /\ Len(inverse0) <= 1) =>
        /\ pc # "raised"
        /\ raised = ""
        /\ pc = "done" =>
             /\ result # None
             /\ result.type = "TransformBase"
             /\ result.xfms = <<>>

C4_Witness ==
    /\ pc = "done"
    /\ NPaths = 0
    /\ inverse0 = <<FALSE>>
    /\ result.type = "TransformBase"

---------------------------------------------------------------------------
(* Properties of the composite-container reader (checked under Spec).      *)

\* The most recent load was that of a composite container.
H5JustRead == opened # <<>> /\ IsH5(opened[Len(opened)])

\* The displacement fields of the chain under construction.
HeldFields == {j \in 1..Len(Held) : Held[j].kind = "DenseFieldTransform"}

\* C8: the reader reshapes the parameter buffer by the grid the container
\* declares: a displacement-field container whose buffer has 3 values per
\* declared grid point is read, into a field of the declared grid's shape,
\* and one whose buffer has any other length raises.
C8_DeclaredGridReshape ==
    (H5JustRead /\ h5file.ttype = DisplacementFieldType) =>
        IF h5file.nparams = DeclaredLength(h5file.fixed)
        THEN /\ pc # "raised"
             /\ HeldFields # {}
             /\ \A j \in HeldFields :
                  Held[j].data.field.shape =
                     <<h5file.fixed[3], h5file.fixed[2], h5file.fixed[1], 3>>
        ELSE pc = "raised"

\* C9: when the displacement-field sub-transform declares another transform
\* type, reading the container fails, load_transforms fails with it, and no
\* chain holding anything read from that container exists or is returned.
C9_WrongTypeFails ==
    h5file.ttype # DisplacementFieldType =>
        /\ \A j \in 1..Len(Held) : ~IsH5(Held[j].src)
        /\ H5JustRead => (pc = "raised" /\ raised # "" /\ result = None)
        /\ pc = "done" => \A j \in 1..Len(result.xfms) : ~IsH5(result.xfms[j].src)

C9_Witness ==
    /\ pc = "raised"
    /\ raised = "AssertionError"
    /\ h5file.ttype # DisplacementFieldType
    /\ h5file.fixed = ExpectedFixedParameters
    /\ h5file.nparams = DeclaredLength(ExpectedFixedParameters)
    /\ Len(opened) = 2
    /\ Len(Held) = 1
    /\ result = None

\* The vector the buffer stores for voxel <<a, b, c>> of the returned field:
\* three consecutive values at grid point [c, b, a] of the stored array.
StoredVector(p) ==
    [comp \in 1..3 |->
        BufVal(h5file.seed, ((p[3] * 229 + p[2]) * 193 + p[1]) * 3 + comp - 1)]

InRas(x) ==
    IF x.kind = "Affine"
    THEN x.data = <<-h5file.affine[1], -h5file.affine[2], h5file.affine[3]>>
    ELSE \A p \in Probes :
            x.data.field.at[p] =
               <<-StoredVector(p)[1], -StoredVector(p)[2], StoredVector(p)[3]>>

\* C10: every transform that comes from a composite container, in the chain
\* under construction and in the returned chain, holds the container's
\* affine converted to RAS or its displacement vectors with x and y negated
\* and z unchanged: nothing after the reader flips or permutes them again.
C10_ReaderGivesRas ==
    /\ \A j \in 1..Len(Held) : IsH5(Held[j].src) => InRas(Held[j])
    /\ pc = "done" =>
         \A j \in 1..Len(result.xfms) :
            IsH5(result.xfms[j].src) => InRas(result.xfms[j])

C10_Witness ==
    /\ pc = "done"
    /\ xfm_paths = <<"hmc.txt", "anat2std.h5">>
    /\ inverse0 = <<FALSE, TRUE>>
    /\ result.xfms[2].kind = "DenseFieldTransform"
    /\ result.xfms[2].inverted
    /\ result.xfms[2].data.field.at[<<1, 0, 0>>][1] # 0
    /\ result.xfms[2].data.field.at[<<1, 0, 0>>][2] # 0
    /\ InRas(result.xfms[1])
    /\ InRas(result.xfms[2])

\* A transform object all of whose transforms are affines.
AllAffine(xfm) == \A j \in 1..Len(xfm.xfms) : xfm.xfms[j].kind = "Affine"

---------------------------------------------------------------------------
(* Properties of the per-volume resampling (checked under SpecRs).         *)

IsUnitShift(xfm) ==
    /\ Len(xfm.xfms) = 1
    /\ xfm.xfms[1].kind = "Affine"
    /\ xfm.xfms[1].src = "hmc.txt"
    /\ ~xfm.xfms[1].inverted
    /\ xfm.xfms[1].data = <<1, 0, 0>>

\* C13: no job ends with an error; every written target voxel whose source
\* coordinate lies outside the grid holds the background value 0; and a
\* volume resampled through a translation by one voxel is the source
\* shifted by one voxel, with 0 in the plane the shift vacates.
C13_BackgroundFill ==
    \A t \in Vols :
        /\ job[t] # "raised"
        /\ \A v \in Vox :
             (v[3] < nplanes[t] /\ ApplyChain(vol_xfms[t], v) \notin Vox) =>
                 out_array[t][v] = 0
        /\ (job[t] = "returned" /\ IsUnitShift(vol_xfms[t])) =>
             out_array[t] =
               [v \in Vox |->
                  IF v[1] + 1 <= GridN - 1
                  THEN series[t][<<v[1] + 1, v[2], v[3]>>]
                  ELSE 0]

\* The 3 x 3 x 3 x 1 series, shifted by one voxel.
C13_Witness ==
    /\ Vols = {1}
    /\ GridN = 3
    /\ job[1] = "returned"
    /\ IsUnitShift(vol_xfms[1])
    /\ out_array[1][<<0, 0, 0>>] = series[1][<<1, 0, 0>>]
    /\ out_array[1][<<1, 2, 2>>] = series[1][<<2, 2, 2>>]
    /\ out_array[1][<<2, 0, 0>>] = 0
    /\ out_array[1][<<2, 2, 2>>] = 0

\* The output of processing the volumes one after another, from volume t
\* on, into the array arr.
RECURSIVE RunSequentially(_, _)
RunSequentially(t, arr) ==
    IF t \notin Vols
    THEN arr
    ELSE RunSequentially(t + 1,
             [arr EXCEPT ![t] = ResampleVol(series[t], vol_xfms[t])])

SequentialOutput == RunSequentially(1, [t \in Vols |-> ZeroVolume])

\* What a job has written is what sequential processing puts there, and
\* the rest of its slice is untouched.
SlicesAgree ==
    \A t \in Vols : \A v \in Vox :
        out_array[t][v] =
            IF v[3] < nplanes[t] THEN SequentialOutput[t][v] ELSE 0

\* A step leaves the source series and the chains as they are, and changes
\* a slice of the output only while the job of that volume is running.
JobsKeepToTheirSlice ==
    /\ series' = series
    /\ vol_xfms' = vol_xfms
    /\ \A t \in Vols : out_array'[t] # out_array[t] => job[t] = "running"

\* C15: in every interleaving of the jobs the shared inputs are never
\* written, each job writes its own slice only, and the output, plane by
\* plane and so at the end, is the output of processing the volumes one
\* after another.
C15_InterleavingIndependent ==
    /\ []SlicesAgree
    /\ [][JobsKeepToTheirSlice]_vars

\* Two jobs in flight at once, each part-way through its own slice.
C15_Witness ==
    /\ Vols = {1, 2}
    /\ job[1] = "running" /\ nplanes[1] = 1
    /\ job[2] = "running" /\ nplanes[2] = 2
    /\ vol_xfms[1] # vol_xfms[2]
    /\ out_array[1][<<0, 0, 0>>] = SequentialOutput[1][<<0, 0, 0>>]
    /\ out_array[2][<<0, 0, 1>>] = SequentialOutput[2][<<0, 0, 1>>]
    /\ out_array[2][<<0, 0, 1>>] # 0

\* A job that never started has written nothing, and when no job is
\* running every slice is either whole or untouched.
NoPartialSlice ==
    \A t \in Vols :
        /\ job[t] \in {"none", "queued", "dropped"} =>
             (nplanes[t] = 0 /\ out_array[t] = ZeroVolume)
        /\ (\A u \in Vols : job[u] # "running") => nplanes[t] \in {0, GridN}

\* A running job is not stopped, and once the series is abandoned no
\* further job starts.
AbandonSparesRunningJobs ==
    \A t \in Vols :
        /\ job[t] = "running" => job'[t] \in {"running", "returned"}
        /\ (abandoned /\ job'[t] = "running") => job[t] = "running"

---------------------------------------------------------------------------
(* Properties of the resampling workflow (checked under SpecWf).           *)

Built == wpc = "run"

FieldmapGiven == fieldmap_id # NoneId /\ fieldmap_id # ""

NodesOf(iface) == {n \in DOMAIN nodes : nodes[n] = iface}

\* The input fields of node n that some connection feeds.
FedInputs(n) == {e[4] : e \in {e \in edges : e[3] = n}}

\* C5: the built workflow has exactly one node resampling the series; its
\* series comes straight from the workflow input, it feeds nothing but the
\* workflow output, and the one transform list it is run with is motion_xfm,
\* then boldref2anat_xfm, then anat2std_xfm.
C5_SingleResampling ==
    Built =>
        /\ NodesOf("ResampleSeries") = {"resample"}
        /\ Feeding("resample", "in_file") =
              {<<"inputnode", "bold_file", "resample", "in_file">>}
        /\ Cardinality(Feeding("resample", "transforms")) = 1
        /\ \A e \in edges : e[1] = "resample" => e[3] = "outputnode"
        /\ status["resample"] = "done" =>
             /\ outs["resample"].out_file[1].in_file = ext.bold_file
             /\ outs["resample"].out_file[1].transforms =
                  ext.motion_xfm \o ext.boldref2anat_xfm \o ext.anat2std_xfm

C5_Witness ==
    /\ Built
    /\ FieldmapGiven
    /\ status["resample"] = "done"
    /\ outs["resample"].out_file[1].transforms =
          <<"hmc.txt", "boldref2anat.txt", "anat2std.h5">>

\* C6: the fieldmap nodes exist, and fieldmap, ro_time and pe_dir reach the
\* resample node, exactly when fieldmap_id is a non-empty string; otherwise
\* the resample node is fed the series, the reference and the transforms
\* only.
C6_FieldmapBranchIff ==
    Built =>
        /\ FieldmapGiven <=>
             {"fmap_select", "distortion_params", "fmap_recon"} \subseteq DOMAIN nodes
        /\ FieldmapGiven <=>
             {"fieldmap", "ro_time", "pe_dir"} \subseteq FedInputs("resample")
        /\ ~FieldmapGiven =>
             /\ DOMAIN nodes \cap {"fmap_select", "distortion_params",
                                   "fmap2target", "inverses", "fmap_recon"} = {}
             /\ FedInputs("resample") = {"in_file", "ref_file", "transforms"}
        /\ status["resample"] = "done" =>
             (FieldmapGiven <=> outs["resample"].out_file[1].fieldmap # <<>>)

C6_Witness ==
    /\ Built
    /\ fieldmap_id = "fmapB"
    /\ status["resample"] = "done"
    /\ outs["resample"].out_file[1].fieldmap # <<>>
    /\ outs["resample"].out_file[1].ro_time # <<>>
    /\ outs["resample"].out_file[1].pe_dir # <<>>

Available == {ext.fmap_id[j] : j \in 1..Len(ext.fmap_id)}

\* C7: when fieldmap_id names a fieldmap that is not among the run-time
\* fmap_id keys, fieldmap selection does not succeed (its run fails) and
\* neither fieldmap reconstruction nor the resampling runs; whenever
\* selection succeeds it gives the reference and coefficients of
\* fieldmap_id itself.
C7_AbsentFieldmapFails ==
    (Built /\ FieldmapGiven) =>
        /\ fieldmap_id \notin Available =>
             /\ status["fmap_select"] \in {"pending", "failed"}
             /\ status["fmap_recon"] = "pending"
             /\ status["resample"] = "pending"
             /\ status["outputnode"] = "pending"
        /\ (fieldmap_id \notin Available /\ status["inputnode"] = "done"
              /\ status["fmap_select"] = "pending") => ~RunOf("fmap_select").ok
        /\ status["fmap_select"] = "done" =>
             /\ outs["fmap_select"].fmap_ref = <<RefOf(fieldmap_id)>>
             /\ outs["fmap_select"].fmap_coeff = <<CoeffOf(fieldmap_id)>>

C7_Witness ==
    /\ Built
    /\ fieldmap_id = "fmapC"
    /\ ext.fmap_id = <<"fmapA", "fmapB">>
    /\ status["fmap_select"] = "failed"
    /\ status["bold2target"] = "done"
    /\ status["distortion_params"] = "done"
    /\ status["fmap2target"] = "done"
    /\ status["inverses"] = "done"
    /\ status["resample"] = "pending"

\* C14: when the resampling runs with a fieldmap, the displacement at every
\* grid point is the fieldmap's value in Hz times the series' readout time
\* along the series' phase-encoding axis, and 0 along the other two axes.
\* Readout times are in milliseconds and displacements in 1/1000 voxel:
\* 10 Hz and 20 ms give 200, that is 0.2.
C14_DisplacementAlongPE ==
    (Built /\ FieldmapGiven /\ status["resample"] = "done") =>
        LET o == outs["resample"].out_file[1]
            hz == FieldHz(outs["fmap_recon"].out_file[1])
            axis == CASE metadata.PhaseEncodingDirection = "j" -> 2
                      [] metadata.PhaseEncodingDirection = "i-" -> 1
            sign == IF metadata.PhaseEncodingDirection = "i-" THEN -1 ELSE 1
        IN /\ Len(DistortionOf(o)) = Len(hz)
           /\ \A g \in 1..Len(hz) : \A a \in 1..3 :
                DistortionOf(o)[g][a] =
                    IF a = axis
                    THEN sign * hz[g] * metadata.TotalReadoutTime
                    ELSE 0

\* Hz values 0 and 10, readout time 20 ms, phase-encoding axis j.
C14_Witness ==
    /\ Built
    /\ fieldmap_id = "fmapA"
    /\ metadata.PhaseEncodingDirection = "j"
    /\ metadata.TotalReadoutTime = 20
    /\ status["resample"] = "done"
    /\ FieldHz(outs["resample"].out_file[1].fieldmap[1]) = <<0, 10>>
    /\ DistortionOf(outs["resample"].out_file[1]) =
          <<<<0, 0, 0>>, <<0, 200, 0>>>>

---------------------------------------------------------------------------
(* Properties of get_estimator (checked under SpecEs).                     *)

---------------------------------------------------------------------------
(* Properties of prepare_timing_parameters (checked under SpecTp).         *)

TimingReturned == tpc = "done"

\* The metadata holds a SliceTiming of more than one entry.
ManySlices ==
    "SliceTiming" \in DOMAIN tp_metadata /\ Len(tp_metadata["SliceTiming"]) > 1

\* The metadata holds a SliceTiming of no entry or of one.
FewSlices ==
    "SliceTiming" \in DOMAIN tp_metadata /\ Len(tp_metadata["SliceTiming"]) <= 1

\* C18: the result's SliceTimingCorrected is true exactly when SliceTiming
\* has more than one entry and "slicetiming" is not ignored, and the result
\* has a StartTime exactly when SliceTimingCorrected is true.
C18_SliceTimingCorrectedIff ==
    TimingReturned =>
        /\ timing_parameters["SliceTimingCorrected"] =
              (ManySlices /\ "slicetiming" \notin tp_ignore)
        /\ "StartTime" \in DOMAIN timing_parameters <=>
              timing_parameters["SliceTimingCorrected"]

\* The doctest of lines 74-76, with the default slice_time_ref of 0.5.
C18_Witness ==
    /\ TimingReturned
    /\ tp_metadata = [RepetitionTime |-> 2000,
                      SliceTiming |-> <<0, 200, 400, 600>>]
    /\ tp_ignore = {}
    /\ slice_time_ref = 500
    /\ timing_parameters =
          [RepetitionTime |-> 2000, SliceTimingCorrected |-> TRUE,
           DelayTime |-> 1200, StartTime |-> 300]

\* The same key with the same value in both dicts, or in neither.
SameEntry(d, e, key) ==
    /\ key \in DOMAIN d <=> key \in DOMAIN e
    /\ key \in DOMAIN d => d[key] = e[key]

\* C19: the result never has a SliceTiming key; and for a SliceTiming of
\* no entry or one the result is the result for the metadata without
\* SliceTiming: no StartTime, and DelayTime and AcquisitionDuration as the
\* metadata has them.
C19_ShortSliceTimingIsMissing ==
    TimingReturned =>
        /\ "SliceTiming" \notin DOMAIN timing_parameters
        /\ FewSlices =>
             /\ timing_parameters =
                  prepare_timing_parameters(
                      [key \in DOMAIN tp_metadata \ {"SliceTiming"} |->
                          tp_metadata[key]],
                      tp_ignore, slice_time_ref)
             /\ "StartTime" \notin DOMAIN timing_parameters
             /\ ~timing_parameters["SliceTimingCorrected"]
             /\ SameEntry(timing_parameters, tp_metadata, "DelayTime")
             /\ SameEntry(timing_parameters, tp_metadata, "AcquisitionDuration")

\* The doctest of lines 102-104, with a DelayTime in the metadata.
C19_Witness ==
    /\ TimingReturned
    /\ tp_metadata = [RepetitionTime |-> 2000, DelayTime |-> 500,
                      SliceTiming |-> <<0>>]
    /\ tp_ignore = {}
    /\ timing_parameters =
          [RepetitionTime |-> 2000, DelayTime |-> 500,
           SliceTimingCorrected |-> FALSE]

---------------------------------------------------------------------------
(* Properties of the docker wrapper (checked under SpecDk).                *)

\* The words of the command that mount something under /imports/.
ImportMounts ==
    {j \in 1..Len(command) :
        \E h \in 1..Len(command[j]) : command[j][h] = "/imports/"}

\* The arguments passed on end with --template-resampling-grid t.
Forwarded(t) ==
    /\ Len(unknown_args) >= 2
    /\ unknown_args[Len(unknown_args) - 1] = <<"--template-resampling-grid">>
    /\ unknown_args[Len(unknown_args)] = <<t>>

\* C20: for --template-resampling-grid native, 1mm or 2mm the wrapper adds
\* no mount and passes the keyword on unchanged; any other value is
\* mounted read-only under /imports/.
C20_KeywordsNotMounted ==
    (dpc = "entrypoint" /\ IsSet(opts.template_resampling_grid)) =>
        LET t == opts.template_resampling_grid
        IN IF t \in {"native", "1mm", "2mm"}
           THEN ImportMounts = {} /\ Forwarded(t)
           ELSE \E j \in ImportMounts :
                   /\ command[j - 1] = <<"-v">>
                   /\ command[j] =
                        Abspath(t) \o <<":", "/imports/", Basename(t), ":", "ro">>

---------------------------------------------------------------------------
(* Further properties of the resampling workflow (checked under SpecWf).   *)

\* C21: the inverses node gives True followed by one False per transform
\* of boldref2target's list (True alone for the empty list), and fieldmap
\* reconstruction is run with the transforms boldref2fmap_xfm then that
\* list and with as many flags as transforms, only the first being set.
C21_InverseFlagsMatch ==
    (Built /\ FieldmapGiven) =>
        /\ status["inverses"] = "done" =>
             LET L == outs["boldref2target"].out
                 flags == outs["inverses"].out
             IN /\ Len(flags) = Len(L) + 1
                /\ flags[1]
                /\ \A j \in 2..Len(flags) : ~flags[j]
        /\ status["fmap_recon"] = "done" =>
             LET r == outs["fmap_recon"].out_file[1]
             IN /\ r.transforms =
                     ext.boldref2fmap_xfm \o ext.boldref2anat_xfm
                        \o ext.anat2std_xfm
                /\ Len(r.inverse) = Len(r.transforms)
                /\ r.inverse[1]
                /\ \A j \in 2..Len(r.inverse) : ~r.inverse[j]

\* Reconstruction has run with three transforms and the flags of the
\* two-transform list.
C21_Witness ==
    /\ Built
    /\ FieldmapGiven
    /\ status["fmap_recon"] = "done"
    /\ outs["boldref2target"].out = <<"boldref2anat.txt", "anat2std.h5">>
    /\ outs["inverses"].out = <<TRUE, FALSE, FALSE>>
    /\ outs["fmap_recon"].out_file[1].transforms =
          <<"boldref2fmap.txt", "boldref2anat.txt", "anat2std.h5">>
    /\ outs["fmap_recon"].out_file[1].inverse = <<TRUE, FALSE, FALSE>>

\* The list given to _gen_inverses is empty and the flags are True alone.
C21_WitnessEmpty ==
    /\ Built
    /\ FieldmapGiven
    /\ status["fmap_recon"] = "done"
    /\ outs["boldref2target"].out = <<>>
    /\ outs["inverses"].out = <<TRUE>>
    /\ outs["fmap_recon"].out_file[1].transforms = <<"boldref2fmap.txt">>

---------------------------------------------------------------------------
(* Properties of init_bold_fit_wf and init_bold_wf (checked under SpecFt). *)

\* init_bold_fit_wf has returned its workflow
FitBuilt == fpc \in {"built", "minimal", "resampling"}

\* the nodes each estimation stage consists of
HmcRefStage == {"hmc_boldref_wf", "ds_hmc_boldref_wf"}
HmcStage == {"bold_hmc_wf", "ds_hmc_wf"}
CoregRefStage == {"enhance_boldref_wf", "ds_coreg_boldref_wf"}
BoldRegStage == {"bold_reg_wf", "ds_boldreg_wf"}

\* the fields of outputnode (fit.py:169-180)
FitOutputs ==
    {"hmc_boldref", "coreg_boldref", "bold_mask", "motion_xfm",
     "boldref2anat_xfm"}

\* the nodes that only hand their inputs on
IdentityNodes ==
    {"hmcref_buffer", "hmc_buffer", "regref_buffer", "fmapreg_buffer"}

EdgesInto(n, f) == {e \in fit_edges : e[3] = n /\ e[4] = f}

InputsOf(n, f) == {i \in fit_inputs : i[1] = n /\ i[2] = f}

\* Field f of outputnode carries the value v as it was precomputed: v is
\* assigned on outputnode itself, or on the buffer field that is the only
\* thing connected to it, and nothing computes that field.
PassedUnchanged(f, v) ==
    \/ /\ InputsOf("outputnode", f) = {<<"outputnode", f, v>>}
       /\ EdgesInto("outputnode", f) = {}
    \/ /\ InputsOf("outputnode", f) = {}
       /\ \E e \in fit_edges :
            /\ EdgesInto("outputnode", f) = {e}
            /\ e[1] \in IdentityNodes
            /\ InputsOf(e[1], e[2]) = {<<e[1], e[2], v>>}
            /\ EdgesInto(e[1], e[2]) = {}

\* The stage is in the workflow when its result is absent; otherwise none
\* of its nodes is, and the precomputed value reaches the output.
StageIffAbsent(stage, d, key, out) ==
    IF key \notin DOMAIN d
    THEN stage \subseteq FitNodes
    ELSE stage \cap FitNodes = {} /\ PassedUnchanged(out, d[key])

\* C22: once init_bold_fit_wf has returned, each of the four estimation
\* stages (HMC reference, head motion, coregistration reference,
\* registration to the anatomical) is in the workflow exactly when its
\* result is absent from the precomputed derivatives, and a result that is
\* present reaches the workflow output unchanged with no node computing it.
C22_StagesIffAbsent ==
    FitBuilt =>
        /\ StageIffAbsent(HmcRefStage, precomputed, "hmc_boldref",
                          "hmc_boldref")
        /\ StageIffAbsent(HmcStage, fit_transforms, "hmc", "motion_xfm")
        /\ StageIffAbsent(CoregRefStage, precomputed, "coreg_boldref",
                          "coreg_boldref")
        /\ StageIffAbsent(BoldRegStage, fit_transforms, "boldref2anat",
                          "boldref2anat_xfm")

\* C22 witness: a workflow built with the HMC reference and the anatomical
\* registration precomputed and the other two results absent.
C22_Witness ==
    /\ FitBuilt
    /\ DOMAIN precomputed = {"hmc_boldref"}
    /\ DOMAIN fit_transforms = {"boldref2anat"}
    /\ (HmcRefStage \cup BoldRegStage) \cap FitNodes = {}
    /\ (HmcStage \cup CoregRefStage) \subseteq FitNodes
    /\ PassedUnchanged("boldref2anat_xfm", TransformFiles["boldref2anat"])

\* C23: when init_bold_wf goes on to the resampling, it and
\* init_bold_fit_wf both hold the series to be multi-echo exactly when it
\* has more than one echo, and a given fieldmap_id is withheld from the
\* volumetric resampling exactly for the series the fit workflow holds to
\* be multi-echo.
C23_MultiechoAgree ==
    fpc = "resampling" =>
        /\ fit_multiecho = (Len(bold_series) > 1)
        /\ base_multiecho = (Len(bold_series) > 1)
        /\ fit_fieldmap_id # NoneId =>
             ((anat_fieldmap_id = NoneId) = fit_multiecho)

\* Field f of node n has a source: an assigned input, a connection from a
\* computing node, or a connection from a buffer whose field has one.
HasSource(n, f) ==
    \/ InputsOf(n, f) # {}
    \/ \E e \in EdgesInto(n, f) :
         \/ e[1] \notin IdentityNodes
         \/ InputsOf(e[1], e[2]) # {}
         \/ \E e2 \in EdgesInto(e[1], e[2]) : e2[1] \notin IdentityNodes

\* C24: once init_bold_fit_wf has returned, every field of outputnode has
\* a source, whatever is precomputed and whatever the fieldmap_id.
C24_EveryOutputHasSource ==
    FitBuilt => \A f \in FitOutputs : HasSource("outputnode", f)

\* Every output has a source when the coregistration reference is computed.
SourcesWithoutCoregref ==
    (FitBuilt /\ "coreg_boldref" \notin DOMAIN precomputed) =>
        \A f \in FitOutputs : HasSource("outputnode", f)

\* With the coregistration reference precomputed, only bold_mask lacks one.
OnlyBoldMaskUnsupplied ==
    (FitBuilt /\ "coreg_boldref" \in DOMAIN precomputed) =>
        \A f \in FitOutputs : HasSource("outputnode", f) = (f # "bold_mask")

---------------------------------------------------------------------------
(* Further properties of transform loading (checked under Spec).           *)

\* C25: when load_transforms has returned, the caller's list of inverse
\* flags has the contents it was passed with (the list of paths is never
\* assigned: PathsUnmodified).
C25_ArgumentsUnmodified == pc = "done" => inverse = inverse0

\* load_transforms never assigns to the caller's list of paths.
PathsUnmodified == [][xfm_paths' = xfm_paths]_vars

\* Except for a single flag given with a number of paths other than one,
\* the flags are left as they were passed.
FlagsModifiedOnlyByBroadcast ==
    (pc = "done" /\ ~(Len(inverse0) = 1 /\ Len(xfm_paths) # 1))
        => inverse = inverse0

\* C30: for every container, parse_combined_hdf5 gives the same outcome
\* with to_ras True and with to_ras False; when it returns, the affine is
\* the stored one converted to RAS and the x and y components of every
\* displacement vector are the stored ones negated, z as stored.
C30_ToRasIgnored ==
    pc # "idle" =>
        LET r1 == parse_combined_hdf5(h5file, TRUE)
            r2 == parse_combined_hdf5(h5file, FALSE)
            shape == <<GridX, GridY, GridZ, 3>>
            stored(p, comp) ==
                Reshaped(h5file.seed, shape, p[3], p[2], p[1], comp - 1)
        IN /\ r1 = r2
           /\ r2.ok =>
                /\ r2.affine = <<-h5file.affine[1], -h5file.affine[2],
                                 h5file.affine[3]>>
                /\ \A p \in Probes :
                     /\ r2.warp.at[p][1] = -stored(p, 1)
                     /\ r2.warp.at[p][2] = -stored(p, 2)
                     /\ r2.warp.at[p][3] = stored(p, 3)

\* C30 witness: load_transforms has returned after reading a composite
\* file whose displacement field is not zero in x at some probed voxel.
C30_Witness ==
    /\ pc = "done"
    /\ \E i \in 1..Len(opened) : Suffix(opened[i]) = ".h5"
    /\ parse_combined_hdf5(h5file, FALSE).ok
    /\ \E p \in Probes : parse_combined_hdf5(h5file, FALSE).warp.at[p][1] # 0


---------------------------------------------------------------------------
(* Properties of worker() (checked under SpecWk and FairSpecWk).           *)

\* the jobs handed to the executor and not over
InExecutor == {t \in Vols : job[t] \in {"queued", "running"}}

\* the workers inside their "async with" block
Holding == {t \in Vols : task[t] = "holding"}

\* C26: while no worker has been cancelled, the jobs in the executor are
\* never more than the initial value of the semaphore, however the
\* workers and the jobs interleave.
C26_AtMostKJobs ==
    ~abandoned => Cardinality(InExecutor) <= max_concurrent

\* C26 witness: more jobs than permits; every permit is taken, a job runs
\* and a worker waits for the semaphore.
C26_Witness ==
    /\ ~abandoned
    /\ Cardinality(Vols) > max_concurrent
    /\ Cardinality(InExecutor) = max_concurrent
    /\ sem = 0
    /\ \E t \in Vols : job[t] = "running"
    /\ \E t \in Vols : task[t] = "pending"

\* every permit is in the semaphore or with a worker inside the block
PermitsConserved == sem + Cardinality(Holding) = max_concurrent

\* a worker that is done has seen its job return or raise
DoneAfterJob ==
    \A t \in Vols : task[t] = "done" => job[t] \in {"returned", "raised"}

\* a worker leaves only by giving its permit back
ReleaseGivesBack ==
    [][\A t \in Vols :
         (task[t] = "holding" /\ task'[t] # "holding") => sem' > sem]_vars

\* C27: no permit is ever lost, a worker whose job has returned or raised
\* gives its permit back, and, unless the workers are cancelled, every
\* worker that waits for the semaphore eventually finishes with its job
\* returned or raised.
C27_PermitsReleased ==
    /\ []PermitsConserved
    /\ []DoneAfterJob
    /\ ReleaseGivesBack
    /\ \A t \in 1..MaxVols :
         /\ (t \in Vols /\ task[t] = "holding"
               /\ job[t] \in {"returned", "raised"})
              ~> (t \in Vols /\ task[t] \in {"done", "cancelled"})
         /\ (t \in Vols /\ task[t] = "pending")
              ~> (t \in Vols /\ (task[t] = "done" \/ abandoned))

\* C27 witness: with one permit, a job has raised, its worker is done, the
\* permit is back and the worker that waited has since finished as well.
C27_Witness ==
    /\ ~abandoned
    /\ max_concurrent = 1
    /\ Cardinality(Vols) = 2
    /\ \E t \in Vols : job[t] = "raised" /\ task[t] = "done"
    /\ \A t \in Vols : task[t] = "done"
    /\ sem = max_concurrent

---------------------------------------------------------------------------
(* Properties of generate_reports (checked under SpecRp).                  *)

\* the subjects of the list whose report failed
FailedSubjects ==
    {i \in 1..Len(subject_list) : subject_list[i] \in failing}

\* C28: generate_reports returns, and what it returns is the number of
\* subjects of the list whose report generation failed: 0 when none
\* failed, the empty list included, and non-zero when any failed.
C28_ReturnsFailureCount ==
    rpc \in {"done", "raised"} =>
        /\ rpc = "done"
        /\ rp_result = Cardinality(FailedSubjects)

\* What generate_reports does return: 1 when the report of the last
\* subject failed, 0 otherwise; it raises for the empty list.
ReturnsLastFailure ==
    /\ rpc = "raised" => subject_list = <<>>
    /\ rpc = "done" =>
         /\ subject_list # <<>>
         /\ rp_result =
              IF subject_list[Len(subject_list)] \in failing THEN 1 ELSE 0

---------------------------------------------------------------------------
(* Properties of ConvertAffine (checked under SpecCa).                     *)

KnownSuffixes == {".lta", ".mat", ".txt"}

\* C29: with in_fmt "auto", once the format is settled it is the one of
\* the file's last suffix (.lta fs, .mat fsl, .txt itk) whatever the file
\* contains; with any other suffix the interface raises KeyError, and at no
\* moment has a transform been loaded or a file been written.
C29_AutoFormatBySuffix ==
    (cpc # "idle" /\ ca_inputs.in_fmt = "auto") =>
        LET suffix == PathSuffix(ca_inputs.in_xfm)
        IN IF suffix \in KnownSuffixes
           THEN cpc # "resolve" =>
                  /\ suffix = ".lta" => in_fmt = "fs"
                  /\ suffix = ".mat" => in_fmt = "fsl"
                  /\ suffix = ".txt" => in_fmt = "itk"
                  /\ \A i \in 1..Len(loaded) : loaded[i][2] = in_fmt
           ELSE /\ loaded = <<>>
                /\ written = <<>>
                /\ ca_results = <<>>
                /\ cpc \in {"resolve", "raised"}
                /\ cpc = "raised" => ca_raised = "KeyError"

\* C29 witness: in_fmt "auto" and a compressed .txt.gz name; the interface
\* has raised KeyError with nothing loaded and nothing written.
C29_Witness ==
    /\ cpc = "raised"
    /\ ca_inputs.in_fmt = "auto"
    /\ ca_inputs.in_xfm = <<"xfm", ".txt", ".gz">>
    /\ ca_raised = "KeyError"
    /\ loaded = <<>>
    /\ written = <<>>

\* in_fmt "auto", a .mat name holding an ITK transform: read as FSL.
C29_WitnessInferred ==
    /\ ca_inputs.in_fmt = "auto"
    /\ ca_inputs.in_xfm = <<"xfm", ".mat">>
    /\ ca_inputs.content = "itk"
    /\ loaded = <<(<<ca_inputs.in_xfm, "fsl">>)>>

===========================================================================
